---- MODULE Spec2Model ----
(***************************************************************************)
(* Model of retriever/api/reddit.py: the Reddit client, its chunked        *)
(* fetch-with-retry operations, the recursive comment-ID discovery and the *)
(* fallback reconciliation of retrieve_submission_comments.                *)
(*                                                                         *)
(* One client object lives in one process and serves a bounded sequence of *)
(* calls.  Times are integer seconds.  A stored request time is held as    *)
(* its age, now - stamp, saturated at WAIT_TIME: the code computes nothing *)
(* from a stamp but max(0, wait_time - (now - stamp)).  Page sizes are     *)
(* scaled down; every comparison against them is the code's comparison.    *)
(***************************************************************************)
EXTENDS Integers, Sequences, FiniteSets, Bags, TLC

VARIABLES
    args,                 \* history: the constructor's arguments and its environment
    api,                  \* self.api.praw: "None" or the client the search API wraps
    init_praw,            \* self._init_praw
    praw,                 \* self._praw: "None", "valid" or "invalid" client
    allow_praw,           \* self._allow_praw
    max_retries,          \* self._max_retries
    backoff_cfg,          \* self._backoff
    warn_on_limit,        \* self._warn_on_limit
    self_last_req,        \* self._last_req (None, or its age)
    default_comment_ids,  \* the list object of the default argument comment_ids=[]
    ncalls,               \* public calls started so far
    op,                   \* public operation in progress
    pc,                   \* position inside it
    exc,                  \* exception that left the operation, if any
    result,               \* value returned by the operation
    \* ---- chunked fetch-with-retry
    time_chunks, ci, attempt, backoff, total, df_all, limit,
    delays,               \* history: every sleep of the retry loop
    run,                  \* history: consecutive failed attempts so far
    warned,               \* history: intervals named by a limit warning
    full_pages,           \* history: intervals whose response was a full page
    attempts_log,         \* history: attempts made per sub-interval
    \* ---- comment-ID discovery
    stack,                \* activation records of _retrieve_submission_comments
    comment_ids,          \* list returned to retrieve_submission_comments
    seen_ids,             \* history: ids in 200 responses of this call
    last_req_at,          \* history: the last HTTP request (None, or its age)
    since_prev_req,       \* history: seconds between the last two HTTP requests
    splits,               \* history: (parent range, child range) of every split
    first_run,            \* history: arguments and ids of the first discovery that returned
    \* ---- retrieve_submission_comments
    submissions_clean, start_epoch, end_epoch,
    pending_ids,          \* ids not yet sent to search_comments
    comment_data,         \* primary table (or the empty list)
    missing_submissions,  \* submissions still to send to the fallback
    comment_data_praw,    \* list of tables returned by the fallback
    primary_rows,         \* history: records the primary backend returned
    fallback_rows,        \* history: records the fallback backend returned
    fallback_calls,       \* history: submissions sent to the fallback
    \* ---- _chunk_timestamps and the id extraction followed on their own
    chunksize,            \* the frequency argument: given or None, and its characters
    time_chunksize,       \* the parsed period (None before the parse)
    submission,           \* the submission argument as the caller wrote it
    \* ---- the bulk-download utilities
    files,                \* the output files that exist
    contents,             \* the submission ids stored in each window's submission file
    tool,                 \* the script that runs, its arguments and its position
    queries,              \* history: this run's queries, whether the file existed, whether they failed
    skipped,              \* history: the partitions this run found on disk and skipped
    \* ---- retriever.util.logging
    logger,               \* the root logger of the process: its level and its handlers
    logcall,              \* the last call of get_logger, and the level of the call before
    \* ---- history of the discovery
    trace                 \* the calls of _retrieve_submission_comments, when they are logged

cfgvars  == <<args, api, init_praw, praw, allow_praw, max_retries, backoff_cfg,
             warn_on_limit>>
procvars == <<self_last_req, default_comment_ids, ncalls>>
fetchvars == <<time_chunks, ci, attempt, backoff, total, df_all, limit,
               delays, run, warned, full_pages, attempts_log>>
discvars == <<stack, comment_ids, seen_ids, last_req_at, since_prev_req, splits>>
commvars == <<submissions_clean, start_epoch, end_epoch, pending_ids,
              comment_data, missing_submissions, comment_data_praw,
              primary_rows, fallback_rows, fallback_calls>>
utilvars == <<files, contents, tool, queries, skipped>>
logvars == <<logger, logcall>>
toolvars == <<utilvars, logvars>>
chunkvars == <<chunksize, time_chunksize, submission, toolvars>>
vars == <<cfgvars, procvars, op, pc, exc, result, fetchvars, discvars, commvars,
          chunkvars, first_run, trace>>

----------------------------------------------------------------------------
(* Bounds of the model *)

MaxCalls == 2          \* public calls made by the process
MaxEpoch == 2          \* epochs of the chunked operations range over 0..MaxEpoch
MaxDate == 1           \* dates of retrieve_submission_comments range over 0..MaxDate
MaxPeriod == 2         \* parsed chunk periods range over 1..MaxPeriod
MaxLimit == 2          \* limits range over 1..MaxLimit, or None
MaxRetriesCfg == 4     \* max_retries ranges over 1..MaxRetriesCfg
MaxBackoffCfg == 3     \* backoff ranges over 1..MaxBackoffCfg
RecursionLimit == 3    \* frames of the discovery before RecursionError
MaxFreqLen == 3        \* frequency strings have at most MaxFreqLen characters
MaxChunkEpoch == 4     \* the chunker's epochs are 0, 30, .., 30 * MaxChunkEpoch
MaxChunks == 5         \* boundaries the chunker's loop is followed for

\* the largest multiplier of a frequency string (Python's integers are
\* unbounded, the periods of the model are kept within 32 bits)
MaxMult == 22
MaxIdPieces == 2       \* submission ids have at most MaxIdPieces pieces
NumWindows == 2        \* date windows of the subreddit script
MaxLogCalls == 3       \* calls of get_logger in one process
MaxToolRuns == 2       \* runs of the scripts on one output directory
MaxRuns == 3           \* calls a client is followed for when only the discovery is at stake
MaxRunDate == 2        \* and the dates of those calls are 0..MaxRunDate

(* Program constants *)

MAX_PER_REQUEST == 2   \* page size of the search binding, scaled from 1000
ID_PAGE == 2           \* size=100 of the id endpoint and of chunks(), scaled
WAIT_TIME == 2         \* wait_time=2
MAX_ATTEMPTS == 3      \* max_attempts=3
TOP_BACKOFF == 4       \* backoff=4 passed by retrieve_submission_comments
DEFAULT_BACKOFF == 2   \* backoff=2, the default the recursive calls get

None == -1             \* Python's None where an integer is expected
Overflow == -2         \* an integer beyond the range time.sleep accepts

----------------------------------------------------------------------------
(* Generic helpers *)

MinSecond(a, b) == b

Min(a, b) == IF a < b THEN a ELSE b
Max(a, b) == IF a > b THEN a ELSE b
Last(s) == s[Len(s)]
Range(s) == {s[i] : i \in DOMAIN s}

RECURSIVE Concat(_)
\* pd.concat of a list of tables
Concat(dfs) == IF dfs = <<>> THEN <<>> ELSE Head(dfs) \o Concat(Tail(dfs))

\* the rows left in whatever order they arrived in: no sort at all
SortValuesAnyOrder(df) ==
    LET n == Len(df)
    IN  {[i \in 1..n |-> df[p[i]]] : p \in Permutations(1..n)}

\* df.sort_values("created_utc"): every arrangement of the rows that is
\* ordered by created_utc; the order among equal keys is the sort's choice
SortValues(df) ==
    LET n == Len(df)
        ok(p) == \A i \in 1..(n-1) : df[p[i]].created_utc <= df[p[i+1]].created_utc
    IN  {[i \in 1..n |-> df[p[i]]] : p \in {q \in Permutations(1..n) : ok(q)}}

\* every listing of a set, as list(set) or a backend may order it
Listings(S) ==
    LET n == Cardinality(S)
    IN  {q \in [1..n -> S] : Range(q) = S}

IsSorted(df) == \A i \in 1..(Len(df)-1) : df[i].created_utc <= df[i+1].created_utc
UniqueIds(df) == \A i, j \in DOMAIN df : i # j => df[i].id # df[j].id

\* the last n rows instead of the first
ILocLast(df, n) == SubSeq(df, Len(df) - Min(n, Len(df)) + 1, Len(df))

\* df.iloc[:n]
ILoc(df, n) == SubSeq(df, 1, Min(n, Len(df)))

----------------------------------------------------------------------------
(* Construction: Reddit.__init__ and _initialize_api_wrappers *)

\* self._init_praw after _initialize_api_wrappers
InitPrawAsRequested(arg_init_praw, has_config, creds_valid) ==
    arg_init_praw /\ has_config

\* self._init_praw after _initialize_api_wrappers
InitPrawAfter(arg_init_praw, has_config, creds_valid) ==
    arg_init_praw /\ has_config /\ creds_valid

\* self._praw after _initialize_api_wrappers: the first branch builds the
\* client before authenticating it and keeps it; the second builds it only
\* for fall-back queries and does not use the authentication result
PrawAfter(arg_init_praw, arg_allow_praw, has_config, creds_valid) ==
    LET client == IF creds_valid THEN "valid" ELSE "invalid"
    IN  IF arg_init_praw /\ has_config
        THEN client
        ELSE IF has_config /\ arg_allow_praw THEN client ELSE "None"

\* self.api.praw after _initialize_api_wrappers: pmaw_api(praw=self._praw)
\* in the authenticated branch, pmaw_api() in every other
ApiAfter(arg_init_praw, has_config, creds_valid) ==
    IF arg_init_praw /\ has_config /\ creds_valid THEN "valid" ELSE "None"

\* the constructor's arguments are not kept
NoArgs == [kept |-> FALSE, init_praw |-> FALSE, allow_praw |-> FALSE,
           has_config |-> FALSE, credentials |-> "valid"]

\* what reddit.user.me() does with the credentials of the config: it returns,
\* it raises ResponseException, or it raises another exception
Credentials == {"valid", "rejected", "error"}

\* str(bool) as format() writes it
PyStr(b) == IF b THEN "True" ELSE "False"

\* __repr__
Repr == <<"Reddit(init_praw=", PyStr(init_praw), ")">>

\* chunksize=None
NoChunksize == [given |-> FALSE, str |-> <<>>]

\* no script runs
NoTool == [name |-> "none", run |-> 0]

\* logging.WARNING, the level of the root logger of a fresh process and the
\* default of get_logger
WARNING == 30

\* a level as the caller writes it: an int, or a str that names a level
IntLevel(n) == [py |-> "int", int |-> n, str |-> ""]
StrLevel(t) == [py |-> "str", int |-> 0, str |-> t]

\* get_logger has not been called
NoLogCall == [level |-> IntLevel(WARNING), pc |-> "none", exc |-> "None",
              returned |-> "None", before |-> IntLevel(WARNING), calls |-> 0]

\* an empty output directory, no script started, the root logger as the
\* logging module creates it
UtilIdle ==
    /\ files = {} /\ contents = [w \in {} |-> {}]
    /\ tool = NoTool /\ queries = {} /\ skipped = {}
    /\ logger = [level |-> WARNING, handlers |-> <<>>]
    /\ logcall = NoLogCall

\* the log of one call of _retrieve_submission_comments: its range, its
\* backoff, the accumulator when it was entered and when it returned, the
\* requests it made, the waits after its 429 responses, the page it got, the
\* ranges it called itself on, what each of these calls added, how it ended
CallLog(start_date, end_date, bk, ids) ==
    [range |-> <<start_date, end_date>>, backoff |-> bk, before |-> ids, after |-> ids,
     requests |-> 0, waits |-> <<>>, page |-> {}, calls |-> <<>>, children |-> <<>>,
     how |-> "running"]

NoCallLog == [CallLog(0, 0, 0, EmptyBag) EXCEPT !.how = "none"]

\* the calls are not logged, or they are and none was made yet
NoTrace == [on |-> FALSE, frames |-> <<>>, last |-> NoCallLog]
Tracing == [NoTrace EXCEPT !.on = TRUE]

\* the first discovery is to be kept, and none has returned yet
NoRun == [kept |-> TRUE, returned |-> FALSE, submission |-> <<>>,
          start_date |-> 0, end_date |-> 0, ids |-> {}]

\* the first discovery is not kept
NotKept == [NoRun EXCEPT !.kept = FALSE]

NoResult == [kind |-> "pending", rows |-> <<>>]
NoneResult == [kind |-> "None", rows |-> <<>>]
Table(rows) == [kind |-> "df", rows |-> rows]

FetchIdle ==
    /\ time_chunks = <<>> /\ ci = 1 /\ attempt = 0 /\ backoff = 0
    /\ total = 0 /\ df_all = <<>> /\ limit = None
    /\ delays = <<>> /\ run = 0 /\ warned = {} /\ full_pages = {}
    /\ attempts_log = <<>>

DiscIdle ==
    /\ stack = <<>> /\ comment_ids = EmptyBag /\ seen_ids = {}
    /\ last_req_at = None /\ since_prev_req = None /\ splits = {}

CommIdle ==
    /\ submissions_clean = <<>> /\ start_epoch = 0 /\ end_epoch = 0
    /\ pending_ids = {} /\ comment_data = <<>> /\ missing_submissions = <<>>
    /\ comment_data_praw = <<>> /\ primary_rows = {} /\ fallback_rows = {}
    /\ fallback_calls = <<>>

ResetFetch ==
    /\ time_chunks' = <<>> /\ ci' = 1 /\ attempt' = 0 /\ backoff' = 0
    /\ total' = 0 /\ df_all' = <<>> /\ limit' = None
    /\ delays' = <<>> /\ run' = 0 /\ warned' = {} /\ full_pages' = {}
    /\ attempts_log' = <<>>

ResetDisc ==
    /\ stack' = <<>> /\ comment_ids' = EmptyBag /\ seen_ids' = {}
    /\ since_prev_req' = None /\ splits' = {}

ResetComm ==
    /\ submissions_clean' = <<>> /\ start_epoch' = 0 /\ end_epoch' = 0
    /\ pending_ids' = {} /\ comment_data' = <<>> /\ missing_submissions' = <<>>
    /\ comment_data_praw' = <<>> /\ primary_rows' = {} /\ fallback_rows' = {}
    /\ fallback_calls' = <<>>

Init ==
    /\ \E a \in BOOLEAN, c \in BOOLEAN, v \in BOOLEAN :
         /\ allow_praw \in BOOLEAN
         /\ init_praw = InitPrawAfter(a, c, v)
         /\ praw = PrawAfter(a, allow_praw, c, v)
         /\ api = ApiAfter(a, c, v)
    /\ args = NoArgs
    /\ max_retries \in 1..MaxRetriesCfg
    /\ backoff_cfg \in 1..MaxBackoffCfg
    /\ warn_on_limit \in BOOLEAN
    /\ self_last_req = None
    /\ default_comment_ids = EmptyBag
    /\ ncalls = 0
    /\ op = "none" /\ pc = "idle" /\ exc = "none" /\ result = NoResult
    /\ FetchIdle /\ DiscIdle /\ CommIdle
    /\ chunksize = NoChunksize /\ time_chunksize = None /\ submission = <<>>
    /\ UtilIdle
    /\ first_run \in {NoRun, NotKept}
    /\ trace \in {NoTrace, Tracing}

\* before Reddit(...) is called
InitNew ==
    /\ args = NoArgs /\ api = "None" /\ init_praw = FALSE /\ praw = "None"
    /\ allow_praw = FALSE /\ max_retries = 1 /\ backoff_cfg = 1 /\ warn_on_limit = FALSE
    /\ self_last_req = None
    /\ default_comment_ids = EmptyBag
    /\ ncalls = 0
    /\ op = "none" /\ pc = "new" /\ exc = "none" /\ result = NoResult
    /\ FetchIdle /\ DiscIdle /\ CommIdle
    /\ chunksize = NoChunksize /\ time_chunksize = None /\ submission = <<>>
    /\ UtilIdle
    /\ first_run = NotKept /\ trace = NoTrace

\* Reddit(init_praw, max_retries, backoff, allow_praw, warn_on_limit) with or
\* without a config: __init__ and _initialize_api_wrappers
Construct ==
    /\ pc = "new"
    /\ \E a \in BOOLEAN, al \in BOOLEAN, c \in BOOLEAN, cr \in Credentials :
         /\ args' = [kept |-> TRUE, init_praw |-> a, allow_praw |-> al,
                     has_config |-> c, credentials |-> cr]
         /\ IF cr = "error" /\ c /\ (a \/ al)
            THEN \* _authenticated catches ResponseException only
                 /\ pc' = "raised" /\ exc' = "OAuthException"
                 /\ UNCHANGED <<api, init_praw, praw>>
            ELSE /\ init_praw' = InitPrawAfter(a, c, cr = "valid")
                 /\ praw' = PrawAfter(a, al, c, cr = "valid")
                 /\ api' = ApiAfter(a, c, cr = "valid")
                 /\ pc' = "idle" /\ exc' = exc
         /\ allow_praw' = al
    /\ max_retries' \in 1..MaxRetriesCfg
    /\ backoff_cfg' \in 1..MaxBackoffCfg
    /\ warn_on_limit' \in BOOLEAN
    /\ UNCHANGED <<chunkvars, first_run, trace, procvars, op, result, fetchvars, discvars,
                   commvars>>

\* repr(reddit)
ReprCall ==
    /\ pc \in {"idle", "done"} /\ ncalls < MaxCalls
    /\ ncalls' = ncalls + 1
    /\ op' = "__repr__" /\ pc' = "done"
    /\ result' = [kind |-> "str", rows |-> Repr]
    /\ UNCHANGED <<cfgvars, chunkvars, first_run, trace, self_last_req, default_comment_ids,
                   exc, fetchvars, discvars, commvars>>

----------------------------------------------------------------------------
(* Time-range chunker *)

RECURSIVE ChunkLoop(_, _, _)
\* the while loop of _chunk_timestamps
ChunkLoop(chunks, end, period) ==
    IF Last(chunks) < end
    THEN ChunkLoop(Append(chunks, Min(Last(chunks) + period, end)),
                   end, period)
    ELSE chunks

\* _chunk_timestamps, chunksize given as the parsed period (None: no chunking)
ChunkTimestamps(start, end, period) ==
    IF period = None THEN <<start, end>> ELSE ChunkLoop(<<start>>, end, period)

\* the characters frequency strings are made of
FreqChars == {"0", "1", "2", "m", "o", "h", "d", "w", "y", "s", "M"}

RECURSIVE StringsUpTo(_)
\* the strings of at most n characters, each a sequence of characters
StringsUpTo(n) ==
    IF n = 0 THEN {<<>>}
    ELSE StringsUpTo(n - 1) \cup
         {Append(w, c) : w \in {v \in StringsUpTo(n - 1) : Len(v) = n - 1}, c \in FreqChars}

\* no case folding
LowerAsIs(freq) == freq

\* str.lower(), character by character
Lower(freq) == [i \in DOMAIN freq |-> IF freq[i] = "M" THEN "m" ELSE freq[i]]

\* str.isdigit() of one character
IsDigit(c) == c \in {"0", "1", "2"}

DigitValue(c) == IF c = "0" THEN 0 ELSE IF c = "1" THEN 1 ELSE 2

RECURSIVE PyInt(_)
\* int() of a string of digits
PyInt(digits) ==
    IF digits = <<>> THEN 0
    ELSE 10 * PyInt(SubSeq(digits, 1, Len(digits) - 1)) + DigitValue(Last(digits))

\* base_freqs, keyed by the characters of the unit
BaseFreqs(unit) ==
    IF unit = <<"m">> THEN 60
    ELSE IF unit = <<"h">> THEN 60 * 60
    ELSE IF unit = <<"d">> THEN 60 * 60 * 24
    ELSE IF unit = <<"w">> THEN 60 * 60 * 24 * 7
    ELSE IF unit = <<"m", "o">> THEN 60 * 60 * 24 * 31
    ELSE IF unit = <<"y">> THEN 60 * 60 * 24 * 365
    ELSE None

RECURSIVE FreqInd(_, _)
\* while freq_ind < len(freq) - 1 and freq[freq_ind].isdigit(): freq_ind += 1
\* (freq_ind counts from 0, the sequence from 1)
FreqInd(freq, freq_ind) ==
    IF freq_ind < Len(freq) - 1 /\ IsDigit(freq[freq_ind + 1])
    THEN FreqInd(freq, freq_ind + 1)
    ELSE freq_ind

\* mult and base_freq of _parse_date_frequency
FreqMult(freq) ==
    LET f == Lower(freq)
        freq_ind == FreqInd(f, 0)
    IN  IF freq_ind > 0 THEN PyInt(SubSeq(f, 1, freq_ind)) ELSE 1

FreqBase(freq) ==
    LET f == Lower(freq)
    IN  SubSeq(f, FreqInd(f, 0) + 1, Len(f))

\* _parse_date_frequency raises ValueError("Could not parse frequency.")
ParseRaises(freq) == BaseFreqs(FreqBase(freq)) = None

\* the period _parse_date_frequency returns when it does not raise
ParseDateFrequency(freq) == FreqMult(freq) * BaseFreqs(FreqBase(freq))

\* the epochs _chunk_timestamps is called with on its own
ChunkEpochs == {30 * k : k \in 0..MaxChunkEpoch}

\* a call of _chunk_timestamps(start_epoch, end_epoch, chunksize)
ChunkerCall(start, end, cs) ==
    /\ pc = "idle"
    /\ op' = "_chunk_timestamps" /\ pc' = "chunk"
    /\ start_epoch' = start /\ end_epoch' = end
    /\ chunksize' = cs /\ time_chunksize' = None /\ submission' = submission
    /\ UNCHANGED toolvars
    /\ UNCHANGED <<cfgvars, first_run, trace, procvars, exc, result, fetchvars, discvars,
                   submissions_clean, pending_ids, comment_data,
                   missing_submissions, comment_data_praw, primary_rows,
                   fallback_rows, fallback_calls>>

\* chunksize is None: time_chunks = [start_epoch, end_epoch], returned
ChunkerNoFrequency ==
    /\ op = "_chunk_timestamps" /\ pc = "chunk" /\ ~chunksize.given
    /\ time_chunks' = <<start_epoch, end_epoch>>
    /\ pc' = "done"
    /\ UNCHANGED <<cfgvars, chunkvars, first_run, trace, procvars, op, exc, result, ci, attempt, backoff,
                   total, df_all, limit, delays, run, warned, full_pages,
                   attempts_log, discvars, commvars>>

\* the frequency is parsed (or the parser raises) and the list is started
ChunkerParse ==
    /\ op = "_chunk_timestamps" /\ pc = "chunk" /\ chunksize.given
    /\ IF ParseRaises(chunksize.str)
       THEN /\ pc' = "raised" /\ exc' = "ValueError"
            /\ UNCHANGED <<time_chunksize, time_chunks>>
       ELSE /\ time_chunksize' = ParseDateFrequency(chunksize.str)
            /\ time_chunks' = <<start_epoch>>
            /\ pc' = "chunkloop" /\ exc' = exc
    /\ UNCHANGED <<cfgvars, chunksize, submission, toolvars, first_run, trace, procvars, op, result, ci, attempt, backoff,
                   total, df_all, limit, delays, run, warned, full_pages,
                   attempts_log, discvars, commvars>>

\* one turn of the while loop
ChunkerStep ==
    /\ op = "_chunk_timestamps" /\ pc = "chunkloop"
    /\ Last(time_chunks) < end_epoch
    /\ Len(time_chunks) < MaxChunks
    /\ time_chunks' = Append(time_chunks, Min(Last(time_chunks) + time_chunksize, end_epoch))
    /\ UNCHANGED <<cfgvars, chunkvars, first_run, trace, procvars, op, pc, exc, result, ci, attempt,
                   backoff, total, df_all, limit, delays, run, warned, full_pages,
                   attempts_log, discvars, commvars>>

\* the loop ends: return time_chunks
ChunkerReturn ==
    /\ op = "_chunk_timestamps" /\ pc = "chunkloop"
    /\ ~(Last(time_chunks) < end_epoch)
    /\ pc' = "done"
    /\ UNCHANGED <<cfgvars, chunkvars, first_run, trace, procvars, op, exc, result, fetchvars,
                   discvars, commvars>>

----------------------------------------------------------------------------
(* Chunked fetch-with-retry: retrieve_subreddit_submissions,                *)
(* retrieve_author_comments, retrieve_author_submissions (one loop, three   *)
(* copies in the source)                                                    *)

\* the posts of the queried subreddit or author held by the search backend
Posts == { [id |-> 1, created_utc |-> 0],
           [id |-> 2, created_utc |-> 1],
           [id |-> 3, created_utc |-> 1],
           [id |-> 4, created_utc |-> 2] }

\* what api.search_submissions / api.search_comments may deliver for
\* since <= created_utc < until, at most lim records
SearchResponses(since, until, lim) ==
    LET match == {p \in Posts : since <= p.created_utc /\ p.created_utc < until}
    IN  {T \in SUBSET match : Cardinality(T) <= lim}

\* the rows of a response in one order; the parser sorts them, so that any
\* order may stand for the order they were delivered in
Delivered(rows) == CHOOSE q \in Listings(rows) : TRUE

\* _parse_pmaw_submission_request / _parse_pmaw_comment_request: the tables
\* the parser may produce from a response (sorted when non-empty)
ParsePmawRequest(request) ==
    IF Cardinality(request) > 0 THEN SortValues(Delivered(request)) ELSE {<<>>}

\* backoff = 2 ** backoff; time.sleep takes at most 2^63 nanoseconds, which
\* is less than 2^34 seconds
NextBackoff(b) == IF b >= 34 THEN Overflow ELSE 2^b

\* "limit": min(limit, MAX_PER_REQUEST) if limit is not None else MAX_PER_REQUEST
RequestLimit(lim) == IF lim # None THEN Min(lim, MAX_PER_REQUEST) ELSE MAX_PER_REQUEST

RangeExhaustedLate(done) == done = max_retries + 1

\* for _ in range(retries): the loop ends after the turn that makes `done` turns
RangeExhausted(done) == done = max_retries

NumIntervals == Len(time_chunks) - 1
LimitReached == limit # None /\ total >= limit
InFetchLoop == ci <= NumIntervals /\ ~LimitReached

\* the call from its entry to the loop, given the time range as
\* _chunk_timestamps cut it
StartFetch(time_chunks_, lim) ==
    /\ pc \in {"idle", "done", "raised"} /\ ncalls < MaxCalls
    /\ ncalls' = ncalls + 1
    /\ op' = "fetch" /\ pc' = "fetch" /\ exc' = "none" /\ result' = NoResult
    /\ time_chunks' = time_chunks_
    /\ ci' = 1 /\ attempt' = 0
    /\ backoff' = backoff_cfg
    /\ total' = 0 /\ df_all' = <<>> /\ limit' = lim
    /\ delays' = <<>> /\ run' = 0 /\ warned' = {} /\ full_pages' = {}
    /\ attempts_log' = [i \in 1..(Len(time_chunks_) - 1) |-> 0]
    /\ ResetDisc /\ ResetComm
    \* the time this call takes is part of the idle time before the next one
    /\ UNCHANGED <<cfgvars, chunkvars, first_run, trace, self_last_req, default_comment_ids, last_req_at>>

\* one attempt of the inner loop that returns: parse, sort, cache, count, break
FetchSuccess ==
    /\ pc = "fetch" /\ InFetchLoop
    /\ \E req \in SearchResponses(time_chunks[ci], time_chunks[ci+1] + 1, RequestLimit(limit)) :
       \E parsed \in ParsePmawRequest(req) :
       \E df \in (IF Len(parsed) > 0 THEN SortValues(parsed) ELSE {parsed}) :
         /\ df_all' = IF Len(df) > 0 THEN Append(df_all, df) ELSE df_all
         /\ total' = IF Len(df) > 0 THEN total + Len(df) ELSE total
         /\ warned' = IF Len(df) = MAX_PER_REQUEST /\ warn_on_limit
                      THEN warned \cup {<<time_chunks[ci], time_chunks[ci+1]>>}
                      ELSE warned
         /\ full_pages' = IF Cardinality(req) = MAX_PER_REQUEST
                          THEN full_pages \cup {<<time_chunks[ci], time_chunks[ci+1]>>}
                          ELSE full_pages
    /\ attempts_log' = [attempts_log EXCEPT ![ci] = @ + 1]
    /\ run' = 0
    /\ ci' = ci + 1 /\ attempt' = 0
    /\ UNCHANGED <<cfgvars, chunkvars, first_run, trace, procvars, op, pc, exc, result, time_chunks, backoff,
                   limit, delays, discvars, commvars>>

\* one attempt of the inner loop that throws: warn, sleep(backoff), 2 ** backoff
FetchFail ==
    /\ pc = "fetch" /\ InFetchLoop
    /\ attempts_log' = [attempts_log EXCEPT ![ci] = @ + 1]
    /\ IF backoff = Overflow
       THEN \* time.sleep rejects the value: OverflowError leaves the handler
            /\ pc' = "raised" /\ exc' = "OverflowError"
            /\ UNCHANGED <<delays, run, backoff, ci, attempt>>
       ELSE /\ delays' = Append(delays, [chunk |-> ci, delay |-> backoff, run |-> run + 1])
            /\ run' = run + 1
            /\ backoff' = NextBackoff(backoff)
            /\ IF RangeExhausted(attempt + 1)
               THEN ci' = ci + 1 /\ attempt' = 0
               ELSE ci' = ci /\ attempt' = attempt + 1
            /\ UNCHANGED <<pc, exc>>
    /\ UNCHANGED <<cfgvars, chunkvars, first_run, trace, procvars, op, result, time_chunks, total, df_all,
                   limit, warned, full_pages, discvars, commvars>>

\* after the loop: None, or concatenate and truncate to the limit
FetchFinish ==
    /\ pc = "fetch" /\ ~InFetchLoop
    /\ pc' = "done"
    /\ result' = IF Len(df_all) = 0
                 THEN NoneResult
                 ELSE IF limit # None /\ Len(Concat(df_all)) > limit
                      THEN Table(ILoc(Concat(df_all), limit))
                      ELSE Table(Concat(df_all))
    /\ UNCHANGED <<cfgvars, chunkvars, first_run, trace, procvars, op, exc, fetchvars, discvars, commvars>>

----------------------------------------------------------------------------
(* Single-request searches: search_for_submissions, search_for_comments     *)

SearchOps == {"search_for_submissions", "search_for_comments"}

\* the call from its entry to the retry loop
StartSearch(which, start, end, lim) ==
    /\ pc \in {"idle", "done", "raised"} /\ ncalls < MaxCalls
    /\ ncalls' = ncalls + 1
    /\ op' = which /\ pc' = "search" /\ exc' = "none" /\ result' = NoResult
    /\ time_chunks' = <<start, end>>
    /\ ci' = 1 /\ attempt' = 0
    /\ backoff' = backoff_cfg
    /\ total' = 0 /\ df_all' = <<>> /\ limit' = lim
    /\ delays' = <<>> /\ run' = 0 /\ warned' = {} /\ full_pages' = {}
    /\ attempts_log' = <<0>>
    /\ ResetDisc /\ ResetComm
    /\ UNCHANGED <<cfgvars, chunkvars, first_run, trace, self_last_req, default_comment_ids, last_req_at>>

\* an attempt that returns: parse, sort, and in search_for_comments alone
\* the length check with its warning; the table is returned, empty or not
SearchSuccess ==
    /\ pc = "search" /\ attempt < max_retries
    /\ \E req \in SearchResponses(time_chunks[1], time_chunks[2], RequestLimit(limit)) :
       \E parsed \in ParsePmawRequest(req) :
       \E df \in (IF Len(parsed) > 0 THEN SortValues(parsed) ELSE {parsed}) :
         /\ result' = Table(df)
         /\ warned' = IF /\ op = "search_for_comments"
                         /\ Len(df) = MAX_PER_REQUEST /\ warn_on_limit
                      THEN warned \cup {<<time_chunks[1], time_chunks[2]>>}
                      ELSE warned
         /\ full_pages' = IF Cardinality(req) = MAX_PER_REQUEST
                          THEN full_pages \cup {<<time_chunks[1], time_chunks[2]>>}
                          ELSE full_pages
    /\ attempts_log' = [attempts_log EXCEPT ![1] = @ + 1]
    /\ run' = 0
    /\ pc' = "done"
    /\ UNCHANGED <<cfgvars, chunkvars, first_run, trace, procvars, op, exc, time_chunks, ci, attempt, backoff,
                   total, df_all, limit, delays, discvars, commvars>>

\* an attempt that throws: warn, sleep(backoff), 2 ** backoff
SearchFail ==
    /\ pc = "search" /\ attempt < max_retries
    /\ attempts_log' = [attempts_log EXCEPT ![1] = @ + 1]
    /\ IF backoff = Overflow
       THEN /\ pc' = "raised" /\ exc' = "OverflowError"
            /\ UNCHANGED <<delays, run, backoff, attempt>>
       ELSE /\ delays' = Append(delays, [chunk |-> 1, delay |-> backoff, run |-> run + 1])
            /\ run' = run + 1
            /\ backoff' = NextBackoff(backoff)
            /\ attempt' = attempt + 1
            /\ UNCHANGED <<pc, exc>>
    /\ UNCHANGED <<cfgvars, chunkvars, first_run, trace, procvars, op, result, time_chunks, ci, total, df_all,
                   limit, warned, full_pages, discvars, commvars>>

\* the loop ends with every attempt failed: the function ends without a
\* return statement, so the caller gets None
SearchExhausted ==
    /\ pc = "search" /\ attempt = max_retries
    /\ result' = NoneResult
    /\ pc' = "done"
    /\ UNCHANGED <<cfgvars, chunkvars, first_run, trace, procvars, op, exc, fetchvars, discvars, commvars>>

----------------------------------------------------------------------------
(* retrieve_subreddit_metadata *)

\* the dictionary _parse_metadata makes of the subreddit's attributes
MetadataDict == [kind |-> "dict", rows |-> <<>>]

\* the call: the configuration is validated, then backoff and metadata_clean
\* are set for the loop
StartMetadata ==
    /\ pc \in {"idle", "done", "raised"} /\ ncalls < MaxCalls
    /\ ncalls' = ncalls + 1
    /\ op' = "retrieve_subreddit_metadata"
    /\ IF ~init_praw
       THEN /\ pc' = "raised" /\ exc' = "ValueError" /\ result' = NoResult
            /\ backoff' = 0
       ELSE /\ pc' = "metadata" /\ exc' = "none" /\ result' = NoneResult
            /\ backoff' = backoff_cfg
    /\ time_chunks' = <<>> /\ ci' = 1 /\ attempt' = 0
    /\ total' = 0 /\ df_all' = <<>> /\ limit' = None
    /\ delays' = <<>> /\ run' = 0 /\ warned' = {} /\ full_pages' = {}
    /\ attempts_log' = <<0>>
    /\ ResetDisc /\ ResetComm
    /\ UNCHANGED <<cfgvars, chunkvars, first_run, trace, self_last_req, default_comment_ids,
                   last_req_at>>

\* an attempt that fetches and parses the metadata: break, return it
MetadataSuccess ==
    /\ pc = "metadata" /\ attempt < max_retries
    /\ attempts_log' = [attempts_log EXCEPT ![1] = @ + 1]
    /\ result' = MetadataDict
    /\ run' = 0
    /\ pc' = "done"
    /\ UNCHANGED <<cfgvars, chunkvars, first_run, trace, procvars, op, exc, time_chunks, ci,
                   attempt, backoff, total, df_all, limit, delays, warned, full_pages,
                   discvars, commvars>>

\* an attempt that throws: warn, sleep(backoff), 2 ** backoff
MetadataFail ==
    /\ pc = "metadata" /\ attempt < max_retries
    /\ attempts_log' = [attempts_log EXCEPT ![1] = @ + 1]
    /\ IF backoff = Overflow
       THEN /\ pc' = "raised" /\ exc' = "OverflowError"
            /\ UNCHANGED <<delays, run, backoff, attempt>>
       ELSE /\ delays' = Append(delays, [chunk |-> 1, delay |-> backoff, run |-> run + 1])
            /\ run' = run + 1
            /\ backoff' = NextBackoff(backoff)
            /\ attempt' = attempt + 1
            /\ UNCHANGED <<pc, exc>>
    /\ UNCHANGED <<cfgvars, chunkvars, first_run, trace, procvars, op, result, time_chunks, ci,
                   total, df_all, limit, warned, full_pages, discvars, commvars>>

\* the loop ends with every attempt failed: metadata_clean is still None
MetadataExhausted ==
    /\ pc = "metadata" /\ attempt = max_retries
    /\ pc' = "done"
    /\ UNCHANGED <<cfgvars, chunkvars, first_run, trace, procvars, op, exc, result, fetchvars,
                   discvars, commvars>>

----------------------------------------------------------------------------
(* Recursive comment-ID discovery: _retrieve_submission_comments            *)

\* the comments held by the backends: id, submission, creation time
Comments == { [id |-> 1, link |-> "a", created_utc |-> 0],
              [id |-> 2, link |-> "b", created_utc |-> 0],
              [id |-> 3, link |-> "b", created_utc |-> 1] }

\* the submission lists a caller passes (already in their bare-id form)
SubmissionLists == { <<"a">>, <<"b">>, <<"a", "b">> }

\* what GET comment/search/?size=100&fields=id&link_id=..&until=..&since=..
\* answers with status 200: the ids in range, cut to one page
IdResponses(subs, since, until) ==
    LET match == {c.id : c \in {d \in Comments : /\ d.link \in Range(subs)
                                                 /\ since <= d.created_utc
                                                 /\ d.created_utc < until}}
    IN  IF Cardinality(match) < ID_PAGE
        THEN {match}
        ELSE {S \in SUBSET match : Cardinality(S) = ID_PAGE}

\* list(set(comment_ids))
ListSet(ids) == SetToBag(BagToSet(ids))

\* comment_ids.extend(resp_ids)
Extend(ids, resp_ids) == ids (+) SetToBag(resp_ids)

DateBoundsRoundedUp(start_date, end_date) ==
    <<start_date, (start_date + end_date + 1) \div 2, end_date>>

\* date_bounds = [start_date, int((start_date+end_date)/2), end_date]
DateBounds(start_date, end_date) ==
    <<start_date, (start_date + end_date) \div 2, end_date>>

\* a stamp's age after d more seconds
Aged(stamp, d) == IF stamp = None THEN None ELSE Min(stamp + d, WAIT_TIME)

\* sleep(max(0, wait_time - since_last)) when a last request time is known
WaitFor(last_req) == IF last_req # None THEN Max(0, WAIT_TIME - last_req) ELSE 0

\* the activation record of a call once it has stamped its request time
Frame(start_date, end_date, bk) ==
    [start_date |-> start_date, end_date |-> end_date, last_req |-> 0,
     backoff |-> bk, attempted |-> 0, attempt_wait |-> WAIT_TIME,
     phase |-> "loop", child |-> 1]

Top == stack[Len(stack)]
SetTop(f) == [stack EXCEPT ![Len(stack)] = f]
Pop == SubSeq(stack, 1, Len(stack) - 1)

\* the frames after d seconds have passed
AgedStack(stk, d) == [i \in DOMAIN stk |-> [stk[i] EXCEPT !.last_req = Aged(@, d)]]

Running(phase) == pc = "discover" /\ stack # <<>> /\ Top.phase = phase

\* the log after the step t, where calls are logged
Logged(t) == IF trace.on THEN t ELSE trace

\* the log of the running call
LogTop == IF trace.frames = <<>> THEN NoCallLog ELSE trace.frames[Len(trace.frames)]

\* the running call's log becomes f
LogSetTop(f) == Logged([trace EXCEPT !.frames = [@ EXCEPT ![Len(trace.frames)] = f]])

\* the running call has made one more request
LogRequested == [LogTop EXCEPT !.requests = @ + 1]

\* the running call calls itself on a range
LogEnter(start_date, end_date, bk) ==
    LET caller == [LogTop EXCEPT !.calls = Append(@, <<start_date, end_date>>)]
        callers == [trace.frames EXCEPT ![Len(trace.frames)] = caller]
    IN  Logged([trace EXCEPT !.frames =
                   Append(callers, CallLog(start_date, end_date, bk,
                                           default_comment_ids))])

\* the running call, its log being f, returns with the accumulator ids
LogReturn(f, how, ids) ==
    LET rest == SubSeq(trace.frames, 1, Len(trace.frames) - 1)
    IN  Logged([trace EXCEPT
                   !.last = [f EXCEPT !.how = how, !.after = ids],
                   !.frames = IF rest = <<>> THEN rest
                              ELSE [rest EXCEPT ![Len(rest)].children =
                                                    Append(@, ids (-) f.before)]])

NextAttemptWaitSame(attempt_wait, bk) == attempt_wait

\* attempt_wait = attempt_wait * backoff
NextAttemptWait(attempt_wait, bk) == attempt_wait * bk

\* what a return of the top frame does: back in the caller, or, for the
\* outermost frame, back in retrieve_submission_comments with the list
Return ==
    /\ stack' = Pop
    /\ IF Len(stack) = 1
       THEN /\ comment_ids' = ListSet(default_comment_ids')
            /\ pending_ids' = BagToSet(ListSet(default_comment_ids'))
            /\ pc' = "primary"
            /\ first_run' = IF first_run = NoRun
                            THEN [NoRun EXCEPT !.returned = TRUE,
                                               !.submission = submissions_clean,
                                               !.start_date = start_epoch,
                                               !.end_date = end_epoch,
                                               !.ids = BagToSet(default_comment_ids')]
                            ELSE first_run
       ELSE UNCHANGED <<comment_ids, pending_ids, pc, first_run>>

\* lines 672-683, the entry of a call given last_req: wait for the rate
\* limit, then stamp the request time on the call and on the client
Enter(stk, start_date, end_date, last_req_arg, bk) ==
    LET last_req == IF last_req_arg = None /\ self_last_req # None
                    THEN self_last_req ELSE last_req_arg
        slept == WaitFor(last_req)
    IN  /\ self_last_req' = 0
        /\ last_req_at' = Aged(last_req_at, slept)
        /\ stack' = Append(AgedStack(stk, slept), Frame(start_date, end_date, bk))

\* resp = requests.get(search_req), as the request log sees it
Requested ==
    /\ since_prev_req' = last_req_at
    /\ last_req_at' = 0

\* attempted == max_attempts: warn and return what has been accumulated
DiscGiveUp ==
    /\ Running("loop") /\ Top.attempted = MAX_ATTEMPTS
    /\ default_comment_ids' = default_comment_ids
    /\ Return
    /\ trace' = LogReturn(LogTop, "gave up", default_comment_ids)
    /\ UNCHANGED <<cfgvars, chunkvars, self_last_req, ncalls, op, exc, result, fetchvars,
                   seen_ids, last_req_at, since_prev_req, splits,
                   submissions_clean, start_epoch, end_epoch, comment_data,
                   missing_submissions, comment_data_praw, primary_rows,
                   fallback_rows, fallback_calls>>

\* requests.get throws (no connection, timeout): nothing catches it
DiscRequestRaises ==
    /\ Running("loop") /\ Top.attempted < MAX_ATTEMPTS
    /\ Requested
    /\ pc' = "raised" /\ exc' = "ConnectionError"
    /\ trace' = LogSetTop(LogRequested)
    /\ UNCHANGED <<cfgvars, chunkvars, first_run, procvars, op, result, fetchvars, stack, comment_ids,
                   seen_ids, splits, commvars>>

\* status 429: count, multiply the wait, sleep, try again
DiscRateLimited ==
    /\ Running("loop") /\ Top.attempted < MAX_ATTEMPTS
    /\ LET slept == NextAttemptWait(Top.attempt_wait, Top.backoff)
       IN  /\ since_prev_req' = last_req_at
           /\ trace' = LogSetTop([LogRequested EXCEPT !.waits = Append(@, slept)])
           /\ last_req_at' = Aged(0, slept)
           /\ self_last_req' = Aged(self_last_req, slept)
           /\ stack' = [AgedStack(stack, slept) EXCEPT
                          ![Len(stack)] = [@ EXCEPT !.attempted = @ + 1,
                                                    !.attempt_wait = slept]]
    /\ UNCHANGED <<cfgvars, chunkvars, first_run, default_comment_ids, ncalls, op, pc, exc,
                   result, fetchvars, comment_ids, seen_ids, splits, commvars>>

\* any other status than 200 and 429: warn and return
DiscOtherStatus ==
    /\ Running("loop") /\ Top.attempted < MAX_ATTEMPTS
    /\ Requested
    /\ default_comment_ids' = default_comment_ids
    /\ Return
    /\ trace' = LogReturn(LogRequested, "status", default_comment_ids)
    /\ UNCHANGED <<cfgvars, chunkvars, self_last_req, ncalls, op, exc, result, fetchvars,
                   seen_ids, splits,
                   submissions_clean, start_epoch, end_epoch, comment_data,
                   missing_submissions, comment_data_praw, primary_rows,
                   fallback_rows, fallback_calls>>

\* status 200 with fewer ids than a page: extend the accumulator and return
DiscPageShort ==
    /\ Running("loop") /\ Top.attempted < MAX_ATTEMPTS
    /\ Requested
    /\ \E resp_ids \in IdResponses(submissions_clean, Top.start_date, Top.end_date) :
         /\ Cardinality(resp_ids) < ID_PAGE
         /\ seen_ids' = seen_ids \cup resp_ids
         /\ default_comment_ids' = Extend(default_comment_ids, resp_ids)
         /\ trace' = LogReturn([LogRequested EXCEPT !.page = resp_ids], "short",
                               Extend(default_comment_ids, resp_ids))
    /\ Return
    /\ UNCHANGED <<cfgvars, chunkvars, self_last_req, ncalls, op, exc, result, fetchvars,
                   splits,
                   submissions_clean, start_epoch, end_epoch, comment_data,
                   missing_submissions, comment_data_praw, primary_rows,
                   fallback_rows, fallback_calls>>

\* status 200 with a full page: go on to split the range
DiscPageFull ==
    /\ Running("loop") /\ Top.attempted < MAX_ATTEMPTS
    /\ Requested
    /\ \E resp_ids \in IdResponses(submissions_clean, Top.start_date, Top.end_date) :
         /\ ~(Cardinality(resp_ids) < ID_PAGE)
         /\ seen_ids' = seen_ids \cup resp_ids
         /\ trace' = LogSetTop([LogRequested EXCEPT !.page = resp_ids])
    /\ stack' = SetTop([Top EXCEPT !.phase = "split", !.child = 1])
    /\ UNCHANGED <<cfgvars, chunkvars, first_run, procvars, op, pc, exc, result, fetchvars, comment_ids,
                   splits, commvars>>

\* the recursive call on the next half-range; it is handed the caller's last_req
\* and none of wait_time's companions, so max_attempts and backoff are defaults
DiscRecurse ==
    /\ Running("split") /\ Top.child <= 2
    /\ LET bounds == DateBounds(Top.start_date, Top.end_date)
           dstart == bounds[Top.child]
           dend   == bounds[Top.child + 1]
       IN  IF Len(stack) >= RecursionLimit
           THEN \* the interpreter's recursion limit
                /\ pc' = "raised" /\ exc' = "RecursionError"
                /\ UNCHANGED <<stack, splits, self_last_req, last_req_at, trace>>
           ELSE /\ Enter(SetTop([Top EXCEPT !.child = @ + 1]),
                        dstart, dend, Top.last_req, DEFAULT_BACKOFF)
                /\ splits' = splits \cup
                     {[parent |-> <<Top.start_date, Top.end_date>>,
                       range |-> <<dstart, dend>>]}
                /\ trace' = LogEnter(dstart, dend, DEFAULT_BACKOFF)
                /\ UNCHANGED <<pc, exc>>
    /\ UNCHANGED <<cfgvars, chunkvars, first_run, default_comment_ids, ncalls, op, result, fetchvars,
                   comment_ids, seen_ids, since_prev_req, commvars>>

\* both half-ranges explored: return list(set(comment_ids))
DiscSplitDone ==
    /\ Running("split") /\ Top.child > 2
    /\ default_comment_ids' = default_comment_ids
    /\ Return
    /\ trace' = LogReturn(LogTop, "split", default_comment_ids)
    /\ UNCHANGED <<cfgvars, chunkvars, self_last_req, ncalls, op, exc, result, fetchvars,
                   seen_ids, last_req_at, since_prev_req, splits,
                   submissions_clean, start_epoch, end_epoch, comment_data,
                   missing_submissions, comment_data_praw, primary_rows,
                   fallback_rows, fallback_calls>>

----------------------------------------------------------------------------
(* retrieve_submission_comments: the id extraction. A string is a sequence  *)
(* of pieces of text, each piece standing for the characters it shows       *)

\* the pieces submission ids are made of: base-36 digits, among them those
\* that spell a word the extraction looks for
IdPieces == {"6v7", "yvh", "reddit", "https"}

RECURSIVE PiecesUpTo(_)
\* the ids of at most n pieces
PiecesUpTo(n) ==
    IF n = 0 THEN {<<>>}
    ELSE PiecesUpTo(n - 1) \cup
         {Append(w, c) : w \in {v \in PiecesUpTo(n - 1) : Len(v) = n - 1}, c \in IdPieces}

\* "x" in s
Contains(s, x) == \E i \in DOMAIN s : s[i] = x

RECURSIVE Split(_, _)
\* s.split(sep)
Split(s, sep) ==
    IF ~Contains(s, sep) THEN <<s>>
    ELSE LET i == CHOOSE k \in DOMAIN s :
                     s[k] = sep /\ \A j \in 1..(k - 1) : s[j] # sep
         IN  <<SubSeq(s, 1, i - 1)>> \o Split(SubSeq(s, i + 1, Len(s)), sep)

\* s.startswith(x)
StartsWith(s, x) == Len(s) > 0 /\ s[1] = x

RECURSIVE Remove(_, _)
\* s.replace(x, "")
Remove(s, x) ==
    IF s = <<>> THEN <<>>
    ELSE IF Head(s) = x THEN Remove(Tail(s), x)
    ELSE <<Head(s)>> \o Remove(Tail(s), x)

\* the three ways of writing a submission
AsUrl(id) ==
    <<"https", "://www.", "reddit", ".com/r/modeltrains/", "comments/">> \o id
        \o <<"/", "layout_update", "/">>
AsFullname(id) == <<"t3_">> \o id
AsBareId(id) == id

\* whether s.split("comments/")[1] raises IndexError
ExtractionRaises(s) ==
    (Contains(s, "https") \/ Contains(s, "reddit")) /\ Len(Split(s, "comments/")) < 2

\* the body of the loop over the submissions, for one of them
CleanSubmission(s) ==
    LET s1 == IF Contains(s, "https") \/ Contains(s, "reddit")
              THEN Split(Split(s, "comments/")[2], "/")[1]
              ELSE s
    IN  IF StartsWith(s1, "t3_") THEN Remove(s1, "t3_") ELSE s1

\* retrieve_submission_comments(submission) up to its id extraction
ExtractionCall(s) ==
    /\ pc = "idle"
    /\ op' = "id_extraction" /\ pc' = "extract"
    /\ submission' = s
    /\ UNCHANGED <<cfgvars, chunksize, time_chunksize, toolvars, first_run, trace, procvars, exc, result,
                   fetchvars, discvars, commvars>>

\* submission = [submission]; the loop that fills submissions_clean
IdExtraction ==
    /\ op = "id_extraction" /\ pc = "extract"
    /\ IF ExtractionRaises(submission)
       THEN /\ pc' = "raised" /\ exc' = "IndexError"
            /\ UNCHANGED submissions_clean
       ELSE /\ submissions_clean' = <<CleanSubmission(submission)>>
            /\ pc' = "extracted" /\ exc' = exc
    /\ UNCHANGED <<cfgvars, chunkvars, first_run, trace, procvars, op, result, fetchvars,
                   discvars, start_epoch, end_epoch, pending_ids, comment_data,
                   missing_submissions, comment_data_praw, primary_rows,
                   fallback_rows, fallback_calls>>

----------------------------------------------------------------------------
(* retrieve_submission_comments: primary retrieval, fallback, merge         *)

\* the link reference of a submission as both backends return it
LinkId(s) == IF s = "a" THEN "t3_a" ELSE "t3_b"

\* the record a backend returns for a comment
Row(c, src) == [id |-> c.id, link_id |-> LinkId(c.link),
                created_utc |-> c.created_utc, src |-> src]

EmptyList == [kind |-> "list", rows |-> <<>>]

\* len(x) for a table or a list
PyLen(x) == Len(x.rows)

\* df.drop_duplicates(subset=["id"], keep="last").reset_index(drop=True)
DropDuplicatesLast(df) ==
    LET keep(i) == \A j \in (i+1)..Len(df) : df[j].id # df[i].id
        RECURSIVE Build(_)
        Build(i) == IF i > Len(df) THEN <<>>
                    ELSE IF keep(i) THEN <<df[i]>> \o Build(i + 1) ELSE Build(i + 1)
    IN  Build(1)

\* the test that sends retrieve_submission_comments to the primary backend
UsePrimary == ~init_praw \/ (init_praw /\ praw = "None")

\* the fall back opened whether or not the caller permitted it
UseFallbackUnpermitted(missing) == Len(missing) > 0 /\ praw # "None"

\* the test that opens the fall back to PRAW
UseFallback(missing) == Len(missing) > 0 /\ praw # "None" /\ allow_praw

\* list(set(submissions_clean) - set(comment_data["link_id"]))
MissingSubmissions(clean, df) ==
    Listings(Range(clean) \ {df[i].link_id : i \in DOMAIN df})

\* a merge in which the primary rows, when there are any, stand alone
MergeFramesPrimaryWins(data, data_praw) ==
    IF PyLen(data) > 0 THEN data ELSE data_praw

\* the merge of lines 799-806
MergeFrames(data, data_praw) ==
    IF PyLen(data) > 0 /\ PyLen(data_praw) > 0
    THEN Table(data.rows \o data_praw.rows)
    ELSE IF PyLen(data) > 0 /\ PyLen(data_praw) = 0 THEN data
    ELSE IF PyLen(data) = 0 /\ PyLen(data_praw) > 0 THEN data_praw
    ELSE data

\* the result returned as merged, duplicates and all
DeduplicateNone(data) == data

\* lines 810-814: deduplicate a non-empty result
Deduplicate(data) ==
    IF PyLen(data) > 0 THEN Table(DropDuplicatesLast(data.rows)) ELSE data

\* retriever.util.helpers.chunks(l, n): successive slices of n items, the
\* last one shorter; here the slices that may come next, l being the ids
\* still to send in the order list(set(..)) gave them
chunks(l, n) == {c \in SUBSET l : Cardinality(c) = Min(n, Cardinality(l))}

StartComments(subs, start, end) ==
    /\ pc \in {"idle", "done", "raised"}
    /\ ncalls' = ncalls + 1
    /\ since_prev_req' = None
    /\ op' = "comments" /\ exc' = "none" /\ result' = NoResult
    /\ submissions_clean' = subs /\ start_epoch' = start /\ end_epoch' = end
    /\ comment_data' = EmptyList
    /\ missing_submissions' = subs
    /\ comment_data_praw' = <<>>
    /\ primary_rows' = {} /\ fallback_rows' = {} /\ fallback_calls' = <<>>
    /\ pending_ids' = {}
    /\ comment_ids' = EmptyBag /\ seen_ids' = {} /\ splits' = {}
    /\ IF UsePrimary
       THEN /\ pc' = "discover"
            /\ Enter(<<>>, start, end, None, TOP_BACKOFF)
            /\ trace' = Logged([trace EXCEPT
                                  !.frames = <<CallLog(start, end, TOP_BACKOFF,
                                                       default_comment_ids)>>,
                                  !.last = NoCallLog])
       ELSE /\ pc' = IF UseFallback(subs) THEN "fallback" ELSE "final"
            /\ stack' = <<>>
            /\ trace' = Logged([trace EXCEPT !.frames = <<>>, !.last = NoCallLog])
            /\ UNCHANGED <<self_last_req, last_req_at>>
    /\ ResetFetch
    /\ UNCHANGED <<cfgvars, chunkvars, first_run, default_comment_ids>>

\* one iteration of the loop over chunks(comment_ids, 100): search, parse, cache
PrimaryChunk ==
    /\ pc = "primary" /\ pending_ids # {}
    /\ \E ids_chunk \in chunks(pending_ids, ID_PAGE) :
         /\ pending_ids' = pending_ids \ ids_chunk
         /\ \E found \in SUBSET {c \in Comments : c.id \in ids_chunk} :
            \E dreq_df \in ParsePmawRequest({Row(c, "pmaw") : c \in found}) :
              /\ comment_data' = IF Len(dreq_df) > 0
                                 THEN [comment_data EXCEPT !.rows = Append(@, dreq_df)]
                                 ELSE comment_data
              /\ primary_rows' = primary_rows \cup Range(dreq_df)
    /\ UNCHANGED <<cfgvars, chunkvars, first_run, trace, procvars, op, pc, exc, result, fetchvars, discvars,
                   submissions_clean, start_epoch, end_epoch, missing_submissions,
                   comment_data_praw, fallback_rows, fallback_calls>>

\* api.search_comments throws inside that loop: nothing catches it
PrimaryChunkRaises ==
    /\ pc = "primary" /\ pending_ids # {}
    /\ pc' = "raised" /\ exc' = "SearchError"
    /\ UNCHANGED <<cfgvars, chunkvars, first_run, trace, procvars, op, result, fetchvars, discvars, commvars>>

\* lines 777-786: merge and sort the chunks, find the submissions without comments
PrimaryMerge ==
    /\ pc = "primary" /\ pending_ids = {}
    /\ IF PyLen(comment_data) > 0
       THEN \E df \in SortValues(Concat(comment_data.rows)) :
              /\ comment_data' = Table(df)
              /\ missing_submissions' \in MissingSubmissions(submissions_clean, df)
       ELSE /\ comment_data' = comment_data
            /\ missing_submissions' = submissions_clean
    /\ pc' = IF UseFallback(missing_submissions') THEN "fallback" ELSE "final"
    /\ UNCHANGED <<cfgvars, chunkvars, first_run, trace, procvars, op, exc, result, fetchvars, discvars,
                   submissions_clean, start_epoch, end_epoch, pending_ids,
                   comment_data_praw, primary_rows, fallback_rows, fallback_calls>>

\* _retrieve_submission_comments_praw for the next missing submission: the
\* comment forest of the thread, parsed, or None when it has no comment
FallbackFetch ==
    /\ pc = "fallback" /\ Len(fallback_calls) < Len(missing_submissions)
    /\ praw = "valid"
    /\ LET s == missing_submissions[Len(fallback_calls) + 1]
       IN  /\ fallback_calls' = Append(fallback_calls, s)
           /\ \E found \in SUBSET {c \in Comments : c.link = s} :
              \E comment_df \in ParsePmawRequest({Row(c, "praw") : c \in found}) :
                /\ comment_data_praw' = IF found # {}
                                        THEN Append(comment_data_praw, comment_df)
                                        ELSE comment_data_praw
                /\ fallback_rows' = fallback_rows \cup Range(comment_df)
    /\ UNCHANGED <<cfgvars, chunkvars, first_run, trace, procvars, op, pc, exc, result, fetchvars, discvars,
                   submissions_clean, start_epoch, end_epoch, pending_ids,
                   comment_data, missing_submissions, primary_rows>>

\* the fallback fetch throws (rejected credentials, no connection)
FallbackRaises ==
    /\ pc = "fallback" /\ Len(fallback_calls) < Len(missing_submissions)
    /\ fallback_calls' = Append(fallback_calls,
                                missing_submissions[Len(fallback_calls) + 1])
    /\ pc' = "raised" /\ exc' = "ResponseException"
    /\ UNCHANGED <<cfgvars, chunkvars, first_run, trace, procvars, op, result, fetchvars, discvars,
                   submissions_clean, start_epoch, end_epoch, pending_ids,
                   comment_data, missing_submissions, comment_data_praw,
                   primary_rows, fallback_rows>>

\* lines 793-814 after the loop over the missing submissions
FallbackMerge ==
    /\ pc = "fallback" /\ Len(fallback_calls) = Len(missing_submissions)
    /\ LET data_praw == IF Len(comment_data_praw) > 0
                        THEN Table(Concat(comment_data_praw))
                        ELSE EmptyList
           merged == MergeFrames(comment_data, data_praw)
       IN  IF merged.kind = "list"
           THEN \* a list has no sort_values
                /\ pc' = "raised" /\ exc' = "AttributeError"
                /\ UNCHANGED <<comment_data, result>>
           ELSE \E sorted \in SortValues(merged.rows) :
                  /\ comment_data' = Deduplicate(Table(sorted))
                  /\ result' = Deduplicate(Table(sorted))
                  /\ pc' = "done" /\ exc' = exc
    /\ UNCHANGED <<cfgvars, chunkvars, first_run, trace, procvars, op, fetchvars, discvars,
                   submissions_clean, start_epoch, end_epoch, pending_ids,
                   missing_submissions, comment_data_praw, primary_rows,
                   fallback_rows, fallback_calls>>

\* lines 810-814 when the fall back was not taken
FinalReturn ==
    /\ pc = "final"
    /\ comment_data' = Deduplicate(comment_data)
    /\ result' = Deduplicate(comment_data)
    /\ pc' = "done"
    /\ UNCHANGED <<cfgvars, chunkvars, first_run, trace, procvars, op, exc, fetchvars, discvars,
                   submissions_clean, start_epoch, end_epoch, pending_ids,
                   missing_submissions, comment_data_praw, primary_rows,
                   fallback_rows, fallback_calls>>

----------------------------------------------------------------------------
(* The bulk-download utilities: utilities/retrieve_subreddit_data.py and    *)
(* utilities/retrieve_user_data.py. A query is a call of the Reddit wrapper *)

\* the date windows of DATE_RANGE
Windows == 1..NumWindows

\* the submissions the backend holds in each window, and their num_comments
WindowSubmissions(w) == IF w = 1 THEN {"a", "b"} ELSE {"c"}
NumComments(l) == IF l = "b" THEN 0 ELSE 1

\* the users enumerated from the input files, in their order
Users == <<"u", "v">>

\* the output files, by partition
SubmissionFile(w) == <<"submissions", IF w = 1 THEN "w1" ELSE IF w = 2 THEN "w2" ELSE "w3">>
CommentFile(l) == <<"comments", l>>
UserFile(u, type) == <<type, u>>

\* os.path.exists
PathExists(f) == f \in files

\* the record kept of a query for the partition of file f
Query(f) == [file |-> f, existed |-> f \in files, tool |-> tool.name, failed |-> FALSE,
             ignore_existing |-> tool.name = "user" /\ tool.ignore_existing]

\* the other parts of the program stand still
UtilStep ==
    UNCHANGED <<cfgvars, chunksize, time_chunksize, submission, logvars, first_run, trace,
                procvars, op, pc, exc, result, fetchvars, discvars, commvars>>

\* python retrieve_subreddit_data.py <subreddit> --min_comments --chunksize
\* [--cache_empty]
SubredditRun ==
    /\ tool.name = "none" /\ tool.run < MaxToolRuns
    /\ \E mc \in 0..1, cs \in 1..2, ce \in BOOLEAN :
         tool' = [name |-> "subreddit", run |-> tool.run + 1, phase |-> "submissions",
                  w |-> 1, link_ids |-> {}, min_comments |-> mc, chunksize |-> cs,
                  cache_empty |-> ce, comment_ids |-> {}]
    /\ skipped' = {} /\ queries' = {}
    /\ UNCHANGED <<files, contents>>
    /\ UtilStep

\* one turn of the loop over the date windows: skip the window whose file
\* exists, or query its submissions and write the file, empty or not
SubmissionWindow ==
    /\ tool.name = "subreddit" /\ tool.phase = "submissions" /\ tool.w <= NumWindows
    /\ LET f == SubmissionFile(tool.w)
       IN  IF PathExists(f)
           THEN /\ skipped' = skipped \cup {f}
                /\ UNCHANGED <<files, contents, queries>>
           ELSE \* retrieve_subreddit_submissions returns the submissions, or
                \* None: none was found, or every attempt failed
                /\ \E outcome \in {"found", "none", "failed"} :
                     /\ queries' = queries \cup
                                      {[Query(f) EXCEPT !.failed = (outcome = "failed")]}
                     /\ contents' = [w \in DOMAIN contents \cup {tool.w} |->
                                       IF w # tool.w THEN contents[w]
                                       ELSE IF outcome = "found"
                                            THEN WindowSubmissions(tool.w) ELSE {}]
                /\ files' = files \cup {f}
                /\ UNCHANGED skipped
    /\ tool' = IF tool.w = NumWindows
               THEN [tool EXCEPT !.phase = "comments", !.w = 1]
               ELSE [tool EXCEPT !.w = @ + 1]
    /\ UtilStep

\* one turn of the loop over the submission files: load the file, keep the
\* submissions with enough comments and without a comment file
CommentsWindow ==
    /\ tool.name = "subreddit" /\ tool.phase = "comments" /\ tool.w <= NumWindows
    /\ tool.link_ids = {}
    /\ LET wanted == {l \in contents[tool.w] : NumComments(l) >= tool.min_comments}
           link_ids == {l \in wanted : ~PathExists(CommentFile(l))}
       IN  /\ skipped' = skipped \cup {CommentFile(l) : l \in wanted \ link_ids}
           /\ tool' = IF link_ids = {}
                      THEN [tool EXCEPT !.w = @ + 1]
                      ELSE [tool EXCEPT !.link_ids = link_ids]
    /\ UNCHANGED <<files, contents, queries>>
    /\ UtilStep

\* one turn of the loop over the chunks of link ids: query the comments of
\* the chunk, write a file per submission that has comments (or per
\* submission, with --cache_empty). The wrapper discovers the comment ids of
\* the chunk into the list its discovery keeps between calls
\* (tool.comment_ids: the submissions whose comment ids the list holds), and
\* requests the comments of every id in the list
CommentsChunk ==
    /\ tool.name = "subreddit" /\ tool.phase = "comments" /\ tool.link_ids # {}
    /\ \E link_id_chunk \in chunks(tool.link_ids, tool.chunksize) :
         \E discovered \in SUBSET {l \in link_id_chunk : NumComments(l) > 0} :
           LET ids == tool.comment_ids \cup discovered
           IN  /\ queries' = queries \cup {Query(CommentFile(l)) :
                                               l \in link_id_chunk \cup ids}
               /\ \E link_df \in SUBSET ids :
                    files' = files \cup
                        {CommentFile(l) : l \in {k \in link_id_chunk :
                                                     k \in link_df \/ tool.cache_empty}}
               /\ tool' = IF tool.link_ids = link_id_chunk
                          THEN [tool EXCEPT !.link_ids = {}, !.w = @ + 1,
                                            !.comment_ids = ids]
                          ELSE [tool EXCEPT !.link_ids = @ \ link_id_chunk,
                                            !.comment_ids = ids]
    /\ UNCHANGED <<contents, skipped>>
    /\ UtilStep

\* the (user, submission file, comment file) entries query_user_data keeps,
\* in the order of its three groups
UserEntries(ignore_existing, get_submissions, get_comments) ==
    LET sub(u) == get_submissions /\
                  ~(ignore_existing /\ PathExists(UserFile(u, "user submissions")))
        com(u) == get_comments /\
                  ~(ignore_existing /\ PathExists(UserFile(u, "user comments")))
        entry(u) == [user |-> u, submissions |-> sub(u), comments |-> com(u)]
        all == [i \in DOMAIN Users |-> entry(Users[i])]
        both(e) == e.submissions /\ e.comments
        subonly(e) == e.submissions /\ ~e.comments
        comonly(e) == ~e.submissions /\ e.comments
    IN  SelectSeq(all, both) \o SelectSeq(all, subonly) \o SelectSeq(all, comonly)

\* the files ignore_existing found on disk
UserSkipped(ignore_existing, get_submissions, get_comments) ==
    IF ~ignore_existing THEN {}
    ELSE {f \in {UserFile(Users[i], "user submissions") : i \in DOMAIN Users} :
             get_submissions /\ PathExists(f)}
         \cup {f \in {UserFile(Users[i], "user comments") : i \in DOMAIN Users} :
                  get_comments /\ PathExists(f)}

\* python retrieve_user_data.py <inputs> [--ignore_existing] [--get_comments]
\* [--get_submissions], one user per chunk: query_user_data up to its loop
UserRun ==
    /\ tool.name = "none" /\ tool.run < MaxToolRuns
    /\ \E ie \in BOOLEAN, gs \in BOOLEAN, gc \in BOOLEAN :
         /\ tool' = [name |-> "user", run |-> tool.run + 1, ignore_existing |-> ie,
                     users_chunks |-> UserEntries(ie, gs, gc)]
         /\ skipped' = UserSkipped(ie, gs, gc)
    /\ queries' = {}
    /\ UNCHANGED <<files, contents>>
    /\ UtilStep

\* one turn of the loop over the chunks of users: query the submissions and
\* the comments asked for, write a file for each table that has rows
UserChunk ==
    /\ tool.name = "user" /\ tool.users_chunks # <<>>
    /\ LET n_user == Head(tool.users_chunks)
           asked == (IF n_user.submissions
                     THEN {UserFile(n_user.user, "user submissions")} ELSE {})
                    \cup (IF n_user.comments
                          THEN {UserFile(n_user.user, "user comments")} ELSE {})
       IN  /\ queries' = queries \cup {Query(f) : f \in asked}
           /\ \E written \in SUBSET asked : files' = files \cup written
    /\ tool' = [tool EXCEPT !.users_chunks = Tail(@)]
    /\ UNCHANGED <<contents, skipped>>
    /\ UtilStep

\* the script ends, at its last statement or killed before
ToolEnds ==
    /\ tool.name # "none"
    /\ tool' = [NoTool EXCEPT !.run = tool.run]
    /\ UNCHANGED <<files, contents, queries, skipped>>
    /\ UtilStep

----------------------------------------------------------------------------
(* retriever.util.logging.get_logger                                        *)

\* logging._nameToLevel
LevelNames == {"DEBUG", "INFO", "WARNING", "ERROR"}
nameToLevel(t) ==
    IF t = "DEBUG" THEN 10 ELSE IF t = "INFO" THEN 20 ELSE IF t = "WARNING" THEN 30
    ELSE 40

\* the levels a caller passes: ints, names of levels, and a str that names none
LevelInputs ==
    {IntLevel(n) : n \in {10, 15, 20, WARNING}}
    \cup {StrLevel(t) : t \in LevelNames \cup {"verbose"}}

\* logging._checkLevel: an int is taken as it is, a str must name a level
CheckLevelRaises(level) == level.py = "str" /\ level.str \notin LevelNames
CheckLevel(level) == IF level.py = "int" THEN level.int ELSE nameToLevel(level.str)

setLevelUnconfigured(lg, level) ==
    IF lg.handlers = <<>> THEN [lg EXCEPT !.level = CheckLevel(level)] ELSE lg

\* Logger.setLevel
setLevel(lg, level) == [lg EXCEPT !.level = CheckLevel(level)]

\* the other parts of the program stand still
LogStep ==
    UNCHANGED <<cfgvars, chunksize, time_chunksize, submission, utilvars, first_run, trace,
                procvars, op, pc, exc, result, fetchvars, discvars, commvars>>

\* get_logger(level): set the level of the root logger, give it a stdout
\* handler of that level if it has no handler, return it
get_logger(level) ==
    /\ logcall.calls < MaxLogCalls
    /\ IF CheckLevelRaises(level)
       THEN /\ logcall' = [level |-> level, pc |-> "raised", exc |-> "ValueError",
                           returned |-> "None", before |-> logcall.level,
                           calls |-> logcall.calls + 1]
            /\ UNCHANGED logger
       ELSE LET lg == setLevel(logger, level)
            IN  /\ logger' = IF lg.handlers = <<>>
                             THEN [lg EXCEPT !.handlers = <<CheckLevel(level)>>]
                             ELSE lg
                /\ logcall' = [level |-> level, pc |-> "returned", exc |-> "None",
                               returned |-> "root", before |-> logcall.level,
                               calls |-> logcall.calls + 1]
    /\ LogStep

GetLoggerCall == \E level \in LevelInputs : get_logger(level)

----------------------------------------------------------------------------
(* Specifications *)

\* the chunkings of every time range start <= end by every period, or by none
TimeChunkings ==
    {ChunkTimestamps(x[1], x[2], x[3]) :
        x \in {y \in (0..MaxEpoch) \X (0..MaxEpoch) \X ({None} \cup 1..MaxPeriod) :
                 y[1] <= y[2]}}

FetchCall ==
    \E time_chunks_ \in TimeChunkings, l \in {None} \cup 1..MaxLimit :
       StartFetch(time_chunks_, l)

CommentsCall ==
    /\ ncalls < MaxCalls
    /\ \E subs \in SubmissionLists, s \in 0..MaxDate, e \in 0..MaxDate :
         s <= e /\ StartComments(subs, s, e)

\* retrieve_submission_comments run again and again on one client
DiscoveryCall ==
    /\ ncalls < MaxRuns
    /\ \E subs \in SubmissionLists, s \in 0..MaxRunDate, e \in 0..MaxRunDate :
         s <= e /\ StartComments(subs, s, e)

\* retrieve_submission_comments called with the calls of its discovery logged
TracedCall ==
    /\ ncalls < MaxCalls
    /\ \E subs \in SubmissionLists, s \in 0..MaxRunDate, e \in 0..MaxRunDate :
         s <= e /\ StartComments(subs, s, e)

\* time passes between two calls
Idle ==
    /\ pc \in {"done", "raised"} /\ ncalls < MaxCalls
    /\ \E d \in 1..WAIT_TIME :
         /\ self_last_req' = Aged(self_last_req, d)
         /\ last_req_at' = Aged(last_req_at, d)
    /\ self_last_req' # self_last_req \/ last_req_at' # last_req_at
    /\ UNCHANGED <<cfgvars, chunkvars, first_run, trace, default_comment_ids, ncalls, op, pc, exc, result,
                   fetchvars, stack, comment_ids, seen_ids, since_prev_req, splits,
                   commvars>>

ChunkerInput ==
    /\ pc = "idle"
    /\ \E start \in ChunkEpochs, end \in ChunkEpochs :
      \E cs \in {NoChunksize} \cup
                 {[given |-> TRUE, str |-> w] :
                     w \in {v \in StringsUpTo(MaxFreqLen) : FreqMult(v) <= MaxMult}} :
         start <= end /\ ChunkerCall(start, end, cs)

NextChunker ==
    ChunkerInput \/ ChunkerNoFrequency \/ ChunkerParse \/ ChunkerStep \/ ChunkerReturn

SearchCall ==
    \E which \in SearchOps, s \in 0..MaxEpoch, e \in 0..MaxEpoch,
       l \in {None} \cup 1..MaxLimit : s <= e /\ StartSearch(which, s, e, l)

NextSearch == SearchCall \/ SearchSuccess \/ SearchFail \/ SearchExhausted

NextFetch == FetchCall \/ FetchSuccess \/ FetchFail \/ FetchFinish

NextComments ==
    \/ CommentsCall \/ Idle
    \/ DiscGiveUp \/ DiscRequestRaises \/ DiscRateLimited
    \/ DiscOtherStatus \/ DiscPageShort \/ DiscPageFull \/ DiscRecurse
    \/ DiscSplitDone
    \/ PrimaryChunk \/ PrimaryChunkRaises \/ PrimaryMerge
    \/ FallbackFetch \/ FallbackRaises \/ FallbackMerge \/ FinalReturn

\* the first chunked fetch of a client
FirstFetchCall == ncalls = 0 /\ FetchCall

NextFirstFetch == FirstFetchCall \/ FetchSuccess \/ FetchFail \/ FetchFinish

\* a submission written in one of the three ways
ExtractionInput ==
    /\ pc = "idle"
    /\ \E id \in PiecesUpTo(MaxIdPieces) \ {<<>>} :
       \E s \in {AsUrl(id), AsFullname(id), AsBareId(id)} : ExtractionCall(s)

NextExtraction == ExtractionInput \/ IdExtraction

NextUtilities ==
    \/ SubredditRun \/ SubmissionWindow \/ CommentsWindow \/ CommentsChunk
    \/ UserRun \/ UserChunk \/ ToolEnds

\* the discovery of comment ids, any behaviour of the id endpoint
NextTraced ==
    \/ TracedCall
    \/ DiscGiveUp \/ DiscRequestRaises \/ DiscRateLimited
    \/ DiscOtherStatus \/ DiscPageShort \/ DiscPageFull \/ DiscRecurse
    \/ DiscSplitDone

NextLogger == GetLoggerCall

NextConstruct == Construct \/ ReprCall

NextMetadata ==
    StartMetadata \/ MetadataSuccess \/ MetadataFail \/ MetadataExhausted

\* a client built with any arguments, with or without a config
InitAny == Init /\ first_run = NotKept /\ trace = NoTrace

\* a backend that answers every request, each query always the same way
NextDiscovery ==
    \/ DiscoveryCall
    \/ DiscPageShort \/ DiscPageFull \/ DiscRecurse \/ DiscSplitDone
    \/ PrimaryChunk \/ PrimaryMerge \/ FinalReturn

\* a client built with the constructor's defaults for the retry policy and
\* the limit warning
InitDefaults ==
    Init /\ max_retries = 3 /\ backoff_cfg = 2 /\ warn_on_limit /\ first_run = NotKept /\ trace = NoTrace

\* a client built without credentials, any retry policy
InitNoPraw == Init /\ praw = "None" /\ ~allow_praw /\ first_run = NotKept /\ trace = NoTrace

\* the chunked fetch operations
SpecFetch == InitNoPraw /\ [][NextFetch]_vars

\* one client, built with the defaults and without credentials
InitOne == InitDefaults /\ praw = "None" /\ ~allow_praw

\* _chunk_timestamps and _parse_date_frequency, called once on any input
SpecChunker == InitOne /\ [][NextChunker]_vars

\* a client built with the defaults and without credentials, whose first
\* discovery is kept
InitDiscovery ==
    /\ Init /\ max_retries = 3 /\ backoff_cfg = 2 /\ warn_on_limit
    /\ praw = "None" /\ ~allow_praw /\ first_run = NoRun /\ trace = NoTrace

\* the discovery of comment ids against a backend without failures
SpecDiscovery == InitDiscovery /\ [][NextDiscovery]_vars

\* retrieve_subreddit_metadata on a client of any configuration
SpecMetadata == InitAny /\ [][NextMetadata]_vars

\* the constructor on every combination of arguments and environment, and repr
SpecConstruct == InitNew /\ [][NextConstruct]_vars

\* one chunked fetch, any retry policy: a chunked fetch sets its delay and
\* its counters anew and reads nothing an earlier call left
SpecFirstFetch == InitNoPraw /\ [][NextFirstFetch]_vars

\* the id extraction of retrieve_submission_comments, called once
SpecExtraction == InitOne /\ [][NextExtraction]_vars

\* the two scripts, run one after the other on one output directory
SpecUtilities == InitOne /\ [][NextUtilities]_vars

\* a default client without credentials whose discovery calls are logged
InitTraced ==
    /\ Init /\ max_retries = 3 /\ backoff_cfg = 2 /\ warn_on_limit
    /\ praw = "None" /\ ~allow_praw /\ first_run = NotKept /\ trace = Tracing

SpecTraced == InitTraced /\ [][NextTraced]_vars

\* retrieve_submission_comments on a default client of any credentials, the
\* calls of its discovery logged
InitTracedComments ==
    Init /\ max_retries = 3 /\ backoff_cfg = 2 /\ warn_on_limit
         /\ first_run = NotKept /\ trace = Tracing

SpecTracedComments == InitTracedComments /\ [][NextComments]_vars

\* the chunker, its loop going on whenever it can
SpecChunkerFair ==
    InitOne /\ [][NextChunker]_vars /\ WF_vars(ChunkerStep) /\ WF_vars(ChunkerReturn)

\* calls of get_logger in one process
SpecLogger == InitOne /\ [][NextLogger]_vars

\* the single-request searches
SpecSearch == InitNoPraw /\ [][NextSearch]_vars

\* retrieve_submission_comments
SpecComments == InitDefaults /\ [][NextComments]_vars

\* a client built with valid credentials and the default retry policy
InitCredentials == InitDefaults /\ praw = "valid" /\ allow_praw

\* A chunked fetch reads and writes nothing that outlives the call, and every
\* call resets the variables of the call before it, so that a call behaves the
\* same after calls of the other kind: a client is followed through calls of
\* one kind.
Next ==
    \/ op # "comments" /\ NextFetch
    \/ op # "fetch" /\ NextComments

\* the chunked fetch operations and retrieve_submission_comments, on a
\* client that has both backends
Spec == InitCredentials /\ [][Next]_vars

----------------------------------------------------------------------------
(* Claims *)

\* the discovery has returned its list to retrieve_submission_comments
DiscoveryReturned == op = "comments" /\ pc \in {"primary", "fallback", "final", "done"}

\* C1: the id list a discovery call returns holds no id twice and only ids
\* that the endpoint returned during that call
C1_ReturnedIdsAreThisCalls ==
    DiscoveryReturned =>
        \A i \in BagToSet(comment_ids) : comment_ids[i] = 1 /\ i \in seen_ids

C3_FetchResultIdsUnique ==
    (op = "fetch" /\ pc = "done" /\ result.kind = "df") => UniqueIds(result.rows)

\* C4: no two records of a non-empty result of retrieve_submission_comments
\* share an id
C4_CommentResultIdsUnique ==
    (op = "comments" /\ pc = "done" /\ PyLen(result) > 0) => UniqueIds(result.rows)

\* both backends returned the same comment and a result came back
C4_Witness ==
    /\ op = "comments" /\ pc = "done" /\ PyLen(result) > 0
    /\ \E p \in primary_rows, f \in fallback_rows : p.id = f.id

\* C5: the delay after the first failed attempt is the configured backoff, and
\* the delay after each further failed attempt for the same sub-interval is
\* twice the delay before it
C5_DelaysDouble ==
    \A i \in DOMAIN delays :
        /\ i = 1 => delays[i].delay = backoff_cfg
        /\ (i > 1 /\ delays[i].chunk = delays[i-1].chunk) =>
               delays[i].delay = 2 * delays[i-1].delay

\* C6: a chunked fetch never raises, however many attempts fail
C6_ExhaustedRetriesNeverRaise ==
    op = "fetch" => pc # "raised"

BackendFailures == {"ConnectionError", "SearchError", "ResponseException"}

\* C7: no failure of a backend call leaves a public retrieval operation
C7_BackendFailuresNeverPropagate ==
    pc = "raised" => exc \notin BackendFailures

\* C8: two consecutive requests of the id discovery are at least wait_time
\* seconds apart
C8_RequestsSpacedByWaitTime ==
    since_prev_req # None => since_prev_req >= WAIT_TIME

Width(range) == range[2] - range[1]

\* C9: each range produced by a split is strictly narrower than the range
\* that was split
C9_SplitRangesStrictlyNarrower ==
    \A sp \in splits : Width(sp.range) < Width(sp.parent)

RowsFor(rows, s) == {r \in rows : r.link_id = LinkId(s)}

\* C10: for a requested submission the primary backend yielded nothing for,
\* with the fallback available and permitted, the result's records of that
\* submission are exactly those the fallback returned for it
C10_FallbackResultForMissingSubmission ==
    (op = "comments" /\ pc = "done" /\ praw # "None" /\ allow_praw) =>
        \A s \in Range(submissions_clean) :
            RowsFor(primary_rows, s) = {} =>
                RowsFor(Range(result.rows), s) = RowsFor(fallback_rows, s)

\* the primary backend returned comments of one submission only, the fallback
\* returned those of the other, and the result came back
C10_Witness ==
    /\ op = "comments" /\ pc = "done" /\ praw # "None" /\ allow_praw
    /\ primary_rows # {}
    /\ \E s \in Range(submissions_clean) :
         RowsFor(primary_rows, s) = {} /\ RowsFor(fallback_rows, s) # {}

\* the fall back is disabled, or the client has no PRAW client
FallbackOff == ~allow_praw \/ praw = "None"

\* C11: with the fall back disabled or no credentials configured,
\* retrieve_submission_comments never calls the fallback backend and never
\* raises on account of missing submissions, and a submission the primary
\* backend returned nothing for has no record in the result
C11_NoFallbackNoError ==
    /\ \A a \in BOOLEAN, allow \in BOOLEAN, v \in BOOLEAN :
         PrawAfter(a, allow, FALSE, v) = "None"
    /\ (op = "comments" /\ FallbackOff) =>
         /\ fallback_calls = <<>>
         /\ pc = "raised" => exc \notin {"AttributeError", "ResponseException"}
         /\ pc = "done" =>
              \A s \in Range(submissions_clean) :
                  RowsFor(primary_rows, s) = {} => RowsFor(Range(result.rows), s) = {}

\* with the fall back off, a result came back that holds the comments of one
\* requested submission and none of another
C11_Witness ==
    /\ op = "comments" /\ pc = "done" /\ FallbackOff
    /\ primary_rows # {}
    /\ \E s \in Range(submissions_clean) : RowsFor(primary_rows, s) = {}

\* C12: the fallback backend is called only on a client whose credentials
\* passed the authentication check and that was built with the fall back
\* permitted
C12_FallbackOnlyWhenAuthenticatedAndPermitted ==
    (op = "comments" /\ fallback_calls # <<>>) => (praw = "valid" /\ allow_praw)

\* the requested submissions no comment of the primary result designates
WithoutPrimaryComment ==
    {s \in Range(submissions_clean) : RowsFor(primary_rows, s) = {}}

\* C13: the submissions sent to the fallback backend are exactly the requested
\* submissions without a comment in the primary result; a submission the
\* primary backend returned a comment for is never sent to it
C13_FallbackOnlyForMissingSubmissions ==
    op = "comments" =>
        /\ Range(fallback_calls) \subseteq WithoutPrimaryComment
        /\ (pc = "done" /\ ~FallbackOff) => Range(fallback_calls) = WithoutPrimaryComment

\* C14: of a record both backends returned, the result of
\* retrieve_submission_comments keeps the fallback backend's
C14_FallbackRecordKept ==
    (op = "comments" /\ pc = "done") =>
        \A i \in DOMAIN result.rows :
            (\E p \in primary_rows, f \in fallback_rows :
                 p.id = result.rows[i].id /\ f.id = result.rows[i].id)
            => result.rows[i].src = "praw"

\* the rows of a table, each with the number of times it occurs
RowBag(df) == [r \in Range(df) |-> Cardinality({i \in DOMAIN df : df[i] = r})]

\* C15: with a limit, a chunked fetch returns at most limit records, and they
\* are the limit earliest of the records retrieved during the call
C15_LimitKeepsEarliest ==
    (op = "fetch" /\ pc = "done" /\ limit # None /\ result.kind = "df") =>
        LET retrieved == Concat(df_all)
            left_out  == RowBag(retrieved) (-) RowBag(result.rows)
        IN  /\ Len(result.rows) <= limit
            /\ Len(result.rows) = Min(limit, Len(retrieved))
            /\ RowBag(result.rows) \sqsubseteq RowBag(retrieved)
            /\ \A q \in BagToSet(left_out) : \A i \in DOMAIN result.rows :
                   result.rows[i].created_utc <= q.created_utc

\* more records than the limit were retrieved, over two sub-intervals, and
\* a later record was cut off
C15_Witness ==
    /\ op = "fetch" /\ pc = "done" /\ limit # None /\ result.kind = "df"
    /\ Len(df_all) >= 2
    /\ Len(Concat(df_all)) > limit
    /\ Len(result.rows) = limit
    /\ \E q \in Range(Concat(df_all)) : result.rows[1].created_utc < q.created_utc

\* C16: every response of a fetch operation that holds the per-request
\* maximum of records is followed by a limit warning naming the queried
\* interval (on a client that has the warning on), its records are in the
\* result, and no interval is named by a warning without such a response
C16_FullPageWarned ==
    /\ warn_on_limit => full_pages \subseteq warned
    /\ warned \subseteq full_pages
    /\ (op = "fetch" /\ pc = "done" /\ (limit = None \/ Len(Concat(df_all)) <= limit)) =>
         \A k \in DOMAIN df_all :
             Len(df_all[k]) = MAX_PER_REQUEST =>
                 Range(df_all[k]) \subseteq Range(result.rows)
    /\ (op \in SearchOps /\ pc = "done" /\ full_pages # {}) =>
         Len(result.rows) = MAX_PER_REQUEST

\* _chunk_timestamps is at work on, or has returned from, a range
\* start_epoch < end_epoch with a frequency string the parser accepted
ChunkingWithFrequency ==
    /\ op = "_chunk_timestamps" /\ pc \in {"chunkloop", "done"}
    /\ chunksize.given /\ start_epoch < end_epoch

StrictlyIncreasing(sq) == \A i \in 1..(Len(sq) - 1) : sq[i] < sq[i + 1]

\* C17: for start_epoch < end_epoch and an accepted frequency string the
\* boundaries _chunk_timestamps builds start at start_epoch and are strictly
\* increasing, and the sequence it returns ends at end_epoch
C17_ChunksStrictlyIncreasing ==
    ChunkingWithFrequency =>
        /\ time_chunks[1] = start_epoch
        /\ StrictlyIncreasing(time_chunks)
        /\ pc = "done" => Last(time_chunks) = end_epoch

\* _chunk_timestamps has returned for a range start_epoch < end_epoch
ChunkerReturned ==
    op = "_chunk_timestamps" /\ pc = "done" /\ start_epoch < end_epoch

\* C18: for start_epoch < end_epoch the boundaries returned with a frequency
\* string lie at most the parsed period apart, and exactly the period apart
\* for every pair but the last; without a frequency string the result is
\* exactly <<start_epoch, end_epoch>>
C18_ChunkLengths ==
    ChunkerReturned =>
        IF chunksize.given
        THEN \A i \in 1..(Len(time_chunks) - 1) :
                /\ time_chunks[i + 1] - time_chunks[i] <= time_chunksize
                /\ i < Len(time_chunks) - 1 =>
                       time_chunks[i + 1] - time_chunks[i] = time_chunksize
        ELSE time_chunks = <<start_epoch, end_epoch>>

\* a returned sequence of at least two sub-intervals whose last one is shorter
\* than the period
C18_Witness ==
    /\ ChunkerReturned /\ chunksize.given
    /\ Len(time_chunks) >= 3
    /\ Last(time_chunks) - time_chunks[Len(time_chunks) - 1] < time_chunksize

\* C19: called with start_epoch = end_epoch, _chunk_timestamps returns the
\* two-element sequence <<start_epoch, end_epoch>>, with or without a
\* frequency string
C19_EmptyRangeTwoBoundaries ==
    (op = "_chunk_timestamps" /\ pc = "done" /\ start_epoch = end_epoch) =>
        time_chunks = <<start_epoch, end_epoch>>

\* the units of a frequency string and their seconds, as the documentation
\* of the chunk size gives them
UnitSeconds ==
    (<<"m">> :> 60) @@ (<<"h">> :> 3600) @@ (<<"d">> :> 86400) @@
    (<<"w">> :> 604800) @@ (<<"m", "o">> :> 2678400) @@ (<<"y">> :> 31536000)

DecimalDigit == ("0" :> 0) @@ ("1" :> 1) @@ ("2" :> 2)

\* the number of digits a string starts with
LeadingDigits(w) ==
    CHOOSE k \in 0..Len(w) :
        /\ \A i \in 1..k : w[i] \in DOMAIN DecimalDigit
        /\ k < Len(w) => w[k + 1] \notin DOMAIN DecimalDigit

RECURSIVE Decimal(_, _)
\* the number a string of digits writes, read from the left
Decimal(ds, acc) ==
    IF ds = <<>> THEN acc ELSE Decimal(Tail(ds), 10 * acc + DecimalDigit[Head(ds)])

\* a string with its capitals folded
Folded(w) == [i \in DOMAIN w |-> IF w[i] = "M" THEN "m" ELSE w[i]]

\* the integer part of a frequency string, 1 when there is none
WrittenMultiplier(w) ==
    IF LeadingDigits(w) = 0 THEN 1 ELSE Decimal(SubSeq(w, 1, LeadingDigits(w)), 0)

\* the unit part of a frequency string, whatever its case
WrittenUnit(w) == Folded(SubSeq(w, LeadingDigits(w) + 1, Len(w)))

\* _chunk_timestamps has gone through _parse_date_frequency
FrequencyParsed ==
    op = "_chunk_timestamps" /\ chunksize.given /\ pc \in {"chunkloop", "done", "raised"}

C21_SecondsUnitAccepted ==
    (FrequencyParsed /\ WrittenUnit(chunksize.str) = <<"s">>) =>
        /\ pc # "raised"
        /\ time_chunksize = WrittenMultiplier(chunksize.str)

\* C22: against a backend that answers every request, a discovery run on the
\* submissions and date range of an earlier run returns the set of ids that
\* the earlier run returned
C22_DiscoveryRepeatable ==
    ( /\ DiscoveryReturned /\ first_run.returned
      /\ submissions_clean = first_run.submission
      /\ start_epoch = first_run.start_date /\ end_epoch = first_run.end_date )
    => BagToSet(comment_ids) = first_run.ids

\* C23: retrieve_subreddit_metadata on a client whose _init_praw is False
\* raises ValueError before any attempt is made; on an initialized client it
\* never raises, makes at most max_retries attempts, and returns None when
\* all of them failed
C23_MetadataRaisesOnlyUninitialized ==
    op = "retrieve_subreddit_metadata" =>
        IF ~init_praw
        THEN pc = "raised" /\ exc = "ValueError" /\ attempts_log = <<0>>
        ELSE /\ pc # "raised"
             /\ attempts_log[1] <= max_retries
             /\ (pc = "done" /\ run = max_retries) => result = NoneResult

\* the constructor has returned a client
Constructed == args.kept /\ pc # "new" /\ ~(op = "none" /\ pc = "raised")

\* C24: on a constructed client _init_praw is True exactly when init_praw was
\* requested, a config is present and its credentials authenticated; the
\* search API wraps the authenticated client exactly when _init_praw is True;
\* and repr reports that value of _init_praw
C24_InitPrawReflectsAuthentication ==
    Constructed =>
        /\ init_praw = (args.init_praw /\ args.has_config /\ args.credentials = "valid")
        /\ (api # "None") = init_praw
        /\ api \in {"None", "valid"}
        /\ op = "__repr__" =>
              result.rows = IF args.init_praw /\ args.has_config /\ args.credentials = "valid"
                            THEN <<"Reddit(init_praw=", "True", ")">>
                            ELSE <<"Reddit(init_praw=", "False", ")">>

\* init_praw was requested with a config whose credentials were rejected, and
\* repr has been called on the client
C24_Witness ==
    /\ Constructed /\ op = "__repr__"
    /\ args.init_praw /\ args.has_config /\ args.credentials = "rejected"
    /\ ~init_praw /\ api = "None" /\ praw = "invalid"

\* the attempts on sub-interval i that failed, and those that returned
Failed(i) == Cardinality({k \in DOMAIN delays : delays[k].chunk = i})
Returned(i) ==
    attempts_log[i] - Failed(i)
        - (IF pc = "raised" /\ exc = "OverflowError" /\ ci = i THEN 1 ELSE 0)

C26_SubmissionFormsNormalized ==
    \A id \in PiecesUpTo(MaxIdPieces) \ {<<>>} :
        ( /\ op = "id_extraction" /\ pc \in {"extracted", "raised"}
          /\ submission \in {AsUrl(id), AsFullname(id), AsBareId(id)} )
        => (pc = "extracted" /\ submissions_clean = <<id>>)

\* C27: no query is issued for a partition whose output file exists: none by
\* retrieve_subreddit_data, for a date window or for a submission's comments,
\* and none by retrieve_user_data run with ignore_existing
C27_ExistingPartitionsNotQueried ==
    \A q \in queries :
        q.existed => (q.tool = "user" /\ ~q.ignore_existing)

\* the calls the scripts make skip what is on disk: the submissions handed
\* to the wrapper have no comment file, the windows and the users queried
\* have no file
CallsSkipExisting ==
    \A q \in queries :
        (q.existed /\ tool.name = "subreddit") =>
            ( /\ q.file[1] = "comments"
              /\ q.file[2] \in tool.comment_ids )

\* C28: get_logger(level=L) returns the root logger with its level set to
\* L, on every call, whatever levels the earlier calls passed
C28_RootLoggerLevelSet ==
    logcall.pc = "returned" =>
        /\ logcall.returned = "root"
        /\ logcall.level.py = "int" => logger.level = logcall.level.int
        /\ logcall.level.py = "str" => logger.level = nameToLevel(logcall.level.str)

\* a later call has returned with a level other than the one of the call
\* before it, the root logger having a handler from the first call
C28_Witness ==
    /\ logcall.pc = "returned" /\ logcall.calls >= 2
    /\ logger.handlers # <<>>
    /\ logger.handlers[1] # logger.level
    /\ logcall.before.py = "int" /\ logcall.level.py = "int"
    /\ logcall.before.int # logcall.level.int

\* the two calls a call on the range of f makes when its page is full
HalfRanges(f) ==
    LET A == f.range[1]
        B == f.range[2]
        half == CHOOSE m \in A..B : 2 * m <= A + B /\ A + B < 2 * (m + 1)
    IN  << <<A, half>>, <<half, B>> >>

IsPrefix(p, q) == Len(p) <= Len(q) /\ \A i \in DOMAIN p : p[i] = q[i]

\* C29: a call of the discovery whose response holds fewer ids than a page
\* makes no further call and its ids are added to the accumulator; a call
\* on [A, B] whose response is a full page makes exactly two calls, on
\* [A, floor((A+B)/2)] and [floor((A+B)/2), B], and what it adds to the
\* accumulator is what these two calls add
C29_ShortPageMergedFullPageSplit ==
    /\ \A i \in DOMAIN trace.frames :
         LET f == trace.frames[i]
         IN  /\ IsPrefix(f.calls, HalfRanges(f))
             /\ f.calls # <<>> => Cardinality(f.page) = ID_PAGE
             /\ Len(f.children) <= Len(f.calls)
    /\ LET f == trace.last
       IN  /\ f.how = "short" =>
                /\ Cardinality(f.page) < ID_PAGE
                /\ f.calls = <<>>
                /\ f.after = f.before (+) SetToBag(f.page)
           /\ f.how = "split" =>
                /\ Cardinality(f.page) = ID_PAGE
                /\ f.calls = HalfRanges(f)
                /\ Len(f.children) = 2
                /\ f.after (-) f.before = f.children[1] (+) f.children[2]

\* a call that got a full page has returned, each of its two calls having
\* added ids of a short page
C29_Witness ==
    /\ trace.last.how = "split"
    /\ trace.last.children[1] # EmptyBag /\ trace.last.children[2] # EmptyBag
    /\ trace.last.children[1] # trace.last.children[2]

\* C30: a call of the discovery that keeps getting status 429 makes at most
\* max_attempts requests, waits before each retry the previous wait times
\* its backoff factor, and after the last 429 returns the accumulated ids
\* without raising; any other status than 200 makes it return the
\* accumulated ids at once
C30_RateLimitBackoff ==
    /\ \A f \in Range(trace.frames) \cup {trace.last} :
         /\ f.requests <= MAX_ATTEMPTS
         /\ Len(f.waits) <= f.requests
         /\ \A i \in DOMAIN f.waits :
              f.waits[i] = (IF i = 1 THEN WAIT_TIME ELSE f.waits[i - 1]) * f.backoff
         /\ f.how = "gave up" =>
              /\ f.requests = MAX_ATTEMPTS /\ Len(f.waits) = MAX_ATTEMPTS
              /\ f.calls = <<>> /\ f.after = f.before
         /\ f.how = "status" =>
              /\ f.requests = Len(f.waits) + 1
              /\ f.calls = <<>> /\ f.after = f.before
    /\ (trace.on /\ pc = "raised") => exc \in {"ConnectionError", "RecursionError"}
    /\ (trace.last.how \in {"gave up", "status"} /\ pc = "primary") =>
         BagToSet(comment_ids) = BagToSet(trace.last.after)

\* a call made by a split has given up after max_attempts 429 responses,
\* ids of the other half being in the accumulator
C30_Witness ==
    /\ trace.last.how = "gave up"
    /\ trace.last.backoff = DEFAULT_BACKOFF
    /\ trace.last.before # EmptyBag
    /\ trace.last.waits[MAX_ATTEMPTS] = WAIT_TIME * DEFAULT_BACKOFF * DEFAULT_BACKOFF
                                        * DEFAULT_BACKOFF

\* a step in which the running call sends a request
RequestStep == Running("loop") /\ Top.attempted < MAX_ATTEMPTS /\ vars' # vars

\* a step in which the running call calls itself on a half range
RecurseStep == Running("split") /\ Len(stack') = Len(stack) + 1

\* C31: the last-request stamp of the client is taken at every request of
\* the id discovery, the retries after a 429 included, and the stamp a call
\* reads before its request is the time of the most recent request of any
\* recursion level
C31_StampIsMostRecentRequest ==
    [][ /\ RequestStep => self_last_req = 0
        /\ RecurseStep => Top.last_req = last_req_at ]_vars

C33_DelayResetPerSubInterval ==
    op = "fetch" =>
        \A i \in DOMAIN delays :
            (i = 1 \/ delays[i].chunk # delays[i - 1].chunk) =>
                delays[i].delay = backoff_cfg

\* C34: every call of one id discovery, at any depth, retries after a 429
\* with the backoff factor given to the outermost call
C34_RecursiveCallsKeepRetryPolicy ==
    \A i \in DOMAIN stack :
        /\ stack[i].backoff = stack[1].backoff
        /\ stack[1].backoff = TOP_BACKOFF

\* C35: every comment id of a 200 response received during an id discovery
\* is in the list the discovery returns
C35_SeenIdsReturned ==
    DiscoveryReturned => seen_ids \subseteq BagToSet(comment_ids)

\* C36: with the fallback backend available and permitted,
\* retrieve_submission_comments does not raise on account of both backends
\* having returned no comment; it returns an empty result
C36_BothEmptyReturnsEmpty ==
    ( /\ op = "comments" /\ praw # "None" /\ allow_praw
      /\ primary_rows = {} /\ fallback_rows = {}
      /\ Len(fallback_calls) = Len(missing_submissions) )
    => ( /\ pc = "raised" => exc \in BackendFailures
         /\ pc = "done" => result.rows = <<>> )

\* C37: every call of retrieve_submission_comments with at least one
\* submission queries a backend, whatever the configuration of the client:
\* its discovery sends a request or the fallback is called
C37_SomeBackendQueried ==
    (op = "comments" /\ pc = "done" /\ Len(submissions_clean) > 0) =>
        (trace.last.requests > 0 \/ fallback_calls # <<>>)

\* C38: retrieve_subreddit_data writes the submission file of a date window
\* only when the retrieval succeeded: a window whose every query attempt
\* failed leaves no file, and so is queried again by the next run
C38_FailedWindowLeavesNoFile ==
    \A q \in queries :
        (q.tool = "subreddit" /\ q.file[1] = "submissions" /\ q.failed) =>
            q.file \notin files

====
